---- MODULE Spec2Model ----
(***************************************************************************)
(* Verification model of the WaPulse WhatsApp MCP server                   *)
(* (Quegenx/wapulse-mcp).                                                  *)
(*                                                                         *)
(* Strings whose characters matter (phone numbers) are sequences of        *)
(* one-character strings; texts are sequences of string fragments.         *)
(***************************************************************************)
EXTENDS Naturals, Integers, Sequences, FiniteSets, TLC

VARIABLES
    phoneNumber,   \* argument of a validate_phone_number call
    phoneResult,   \* what handleValidatePhoneNumber returned for it
    env,           \* process.env: WAPULSE_TOKEN, WAPULSE_INSTANCE_ID, WAPULSE_BASE_URL
    globalConfig,  \* utils/config.ts: the lazily filled configuration singleton
    entry,         \* the entry point this process runs
    config,        \* the entry point's own config object
    pc,            \* "boot", "idle", "fetch", "done", "exited" (process.exit(1))
                   \* or "failed" (the server factory threw)
    call,          \* the tool invocation being served
    sent,          \* the network requests the invocation has issued, in order
    fetched,       \* how the awaited fetch of the invocation ended
    result,        \* how the invocation ended
    rateLimitMap,  \* utils/auth: key -> [count, resetTime]
    now,           \* Date.now() at the latest checkRateLimit call
    rateCalls,     \* the checkRateLimit calls made so far, with their outcome
    listed,        \* stdio-index: the names of the latest ListTools response
    dispatched,    \* stdio-index: the CallTool requests answered so far
    reported,      \* the progress reports of the call in flight
    logged         \* the log calls of an instance handler

phoneVars == <<phoneNumber, phoneResult>>

serverVars ==
    <<env, globalConfig, entry, config, pc, call, sent, fetched, result,
      reported>>

rateVars == <<rateLimitMap, now, rateCalls>>

toolVars == <<listed, dispatched, logged>>

vars == <<phoneNumber, phoneResult, env, globalConfig, entry, config, pc,
          call, sent, fetched, result, rateLimitMap, now, rateCalls,
          listed, dispatched, reported, logged>>

(***************************************************************************)
(* Bounds                                                                  *)
(***************************************************************************)
MaxPhoneLen == 21      \* longest phone-number input that is enumerated

MaxCalls == 4          \* checkRateLimit calls in one run

MaxDispatch == 2       \* CallTool requests in one run of the dispatcher

MaxTokenLen == 12      \* longest API token that is enumerated

(***************************************************************************)
(* Characters and JavaScript string helpers                                *)
(***************************************************************************)
Digits == {"0", "1", "2", "3", "4", "5", "6", "7", "8", "9"}

NonDigits == {"+", " ", "-", "a", "\n"}

IsDigits(s) == \A i \in 1..Len(s) : s[i] \in Digits

Min(a, b) == IF a < b THEN a ELSE b

Max(a, b) == IF a > b THEN a ELSE b

\* String.prototype.slice(start, end) with 0-based, possibly negative
\* indices; end = Len(s) stands for an omitted end.
JsIndex(s, i) == IF i < 0 THEN Max(Len(s) + i, 0) ELSE Min(i, Len(s))

Slice(s, start, end) ==
    LET from == JsIndex(s, start)
        to   == JsIndex(s, end)
    IN  IF from >= to THEN <<>> ELSE SubSeq(s, from + 1, to)

SliceFrom(s, start) == Slice(s, start, Len(s))

(***************************************************************************)
(* utils/helpers.ts: phone numbers                                         *)
(***************************************************************************)
\* /^\d{1,4}\d{6,15}$/ .test(s): the whole string splits into a run of
\* 1-4 digits followed by a run of 6-15 digits.
phoneRegexShort(s) ==
    \E k \in 1..4 : \E m \in 6..14 :
        /\ k + m = Len(s)
        /\ IsDigits(SubSeq(s, 1, k))
        /\ IsDigits(SubSeq(s, k + 1, k + m))

phoneRegex(s) ==
    \E k \in 1..4 : \E m \in 6..15 :
        /\ k + m = Len(s)
        /\ IsDigits(SubSeq(s, 1, k))
        /\ IsDigits(SubSeq(s, k + 1, k + m))

validatePhoneNumber(s) == phoneRegex(s)

\* the formatter cutting the number one character too late
formatPhoneNumberDropsDigit(s) ==
    IF Len(s) >= 10
    THEN LET countryCode == Slice(s, 0, -9)
             number      == SliceFrom(s, -8)
         IN  <<"+">> \o countryCode \o <<" ">> \o Slice(number, 0, 3)
                 \o <<" ">> \o Slice(number, 3, 6)
                 \o <<" ">> \o SliceFrom(number, 6)
    ELSE s

formatPhoneNumber(s) ==
    IF Len(s) >= 10
    THEN LET countryCode == Slice(s, 0, -9)
             number      == SliceFrom(s, -9)
         IN  <<"+">> \o countryCode \o <<" ">> \o Slice(number, 0, 3)
                 \o <<" ">> \o Slice(number, 3, 6)
                 \o <<" ">> \o SliceFrom(number, 6)
    ELSE s

(***************************************************************************)
(* tools/messaging/validatePhoneNumber.ts                                  *)
(***************************************************************************)
\* phoneNumber.match(/^(\d{1,4})/)?.[1] || '' : the quantifier is greedy,
\* so the capture is the longest run of leading digits, at most four.
LeadingDigits(s, n) ==
    LET ks == {k \in 0..Min(n, Len(s)) : IsDigits(SubSeq(s, 1, k))}
    IN  CHOOSE k \in ks : \A j \in ks : j <= k

matchCountryCode(s) == SubSeq(s, 1, LeadingDigits(s, 4))

NoPhoneResult ==
    [status |-> "none", original |-> <<>>, formatted |-> <<>>,
     countryCode |-> <<>>]

handleValidatePhoneNumberResult(s) ==
    IF validatePhoneNumber(s)
    THEN [status |-> "VALID", original |-> s,
          formatted |-> formatPhoneNumber(s),
          countryCode |-> matchCountryCode(s)]
    ELSE [status |-> "INVALID", original |-> s, formatted |-> <<>>,
          countryCode |-> <<>>]

(***************************************************************************)
(* Phone-number inputs                                                     *)
(***************************************************************************)
Pattern1 == <<"9", "7", "2", "5", "1", "2", "3", "4", "5", "6", "7", "8">>

Pattern2 == <<"1", "4", "1", "5", "5", "5", "5", "2", "6", "7", "1">>

\* the first n characters of the pattern repeated for ever
Repeat(p, n) == [i \in 1..n |-> p[((i - 1) % Len(p)) + 1]]

DigitInputs ==
    {Repeat(p, n) : p \in {Pattern1, Pattern2}, n \in 0..MaxPhoneLen}

ReplaceAt(s, i, c) == [j \in 1..Len(s) |-> IF j = i THEN c ELSE s[j]]

PhoneInputs ==
    DigitInputs
    \cup {<<c>> \o s : c \in NonDigits,
                       s \in {d \in DigitInputs : Len(d) < MaxPhoneLen}}
    \cup UNION {{ReplaceAt(s, i, c) : i \in 1..Len(s), c \in NonDigits} :
                s \in DigitInputs}

Israel == Pattern1

(***************************************************************************)
(* JavaScript values                                                       *)
(***************************************************************************)
UNDEF == "<undefined>"

\* truthiness of a string-or-undefined value
Truthy(v) == v # UNDEF /\ v # ""

\* a || b
Or(a, b) == IF Truthy(a) THEN a ELSE b

\* a ?? b
Nullish(a, b) == IF a # UNDEF THEN a ELSE b

\* Array.prototype.join on texts
RECURSIVE Join(_, _)
Join(ss, sep) ==
    IF ss = <<>> THEN <<>>
    ELSE IF Len(ss) = 1 THEN Head(ss)
    ELSE LET half == Len(ss) \div 2
         IN  Join(SubSeq(ss, 1, half), sep) \o sep
                 \o Join(SubSeq(ss, half + 1, Len(ss)), sep)


\* text `needle` occurs in text `hay` as a contiguous run of fragments
ContainsSeq(hay, needle) ==
    \E i \in 0..(Len(hay) - Len(needle)) :
        SubSeq(hay, i + 1, i + Len(needle)) = needle

Contains(hay, fragment) == \E i \in 1..Len(hay) : hay[i] = fragment

(***************************************************************************)
(* Errors                                                                  *)
(***************************************************************************)
InvalidParams == "-32602"

InternalError == "-32603"

NoError == [class |-> "none", code |-> "none", message |-> <<>>]

\* McpError's constructor prefixes the message with the code
McpError(code, message) ==
    [class |-> "McpError", code |-> code,
     message |-> <<"MCP error ", code, ": ">> \o message]

UserError(message) ==
    [class |-> "UserError", code |-> "none", message |-> message]

Error(message) == [class |-> "Error", code |-> "none", message |-> message]

TypeError(message) ==
    [class |-> "TypeError", code |-> "none", message |-> message]

ZodError(message) ==
    [class |-> "ZodError", code |-> "none", message |-> message]

Throw(err) == [kind |-> "throw", err |-> err]

(***************************************************************************)
(* JSON.  A value is an object (a sequence of members), an array of flat   *)
(* objects, or null.  A member is a scalar, kept as its display string, or *)
(* a list of flat objects.  A body as written on the wire may repeat a     *)
(* key; JSON.parse keeps the first position and the last value.            *)
(***************************************************************************)
Pair(k, a) == [key |-> k, atom |-> a]

Member(k, a) == [key |-> k, atom |-> a, items |-> <<>>]

ListMember(k, items) == [key |-> k, atom |-> "[]", items |-> items]

JsonObject(members) == [shape |-> "object", members |-> members, elems |-> <<>>]

JsonArray(elems) == [shape |-> "array", members |-> <<>>, elems |-> elems]

JsonNull == [shape |-> "null", members |-> <<>>, elems |-> <<>>]

RECURSIVE Dedup(_)
Dedup(ps) ==
    IF ps = <<>> THEN <<>>
    ELSE LET last  == ps[Len(ps)]
             front == Dedup(SubSeq(ps, 1, Len(ps) - 1))
         IN  IF \E i \in 1..Len(front) : front[i].key = last.key
             THEN [i \in 1..Len(front) |->
                      IF front[i].key = last.key THEN last ELSE front[i]]
             ELSE Append(front, last)

DedupItems(items) == [i \in 1..Len(items) |-> Dedup(items[i])]

DedupMember(m) == [m EXCEPT !.items = DedupItems(m.items)]

JSONparseValue(written) ==
    [shape   |-> written.shape,
     members |-> [i \in 1..Len(Dedup(written.members)) |-> DedupMember(Dedup(written.members)[i])],
     elems   |-> DedupItems(written.elems)]

EmptyBody == [kind |-> "empty", raw |-> "", written |-> JsonNull]

TextBody(raw) == [kind |-> "text", raw |-> raw, written |-> JsonNull]

JsonBody(written) == [kind |-> "json", raw |-> "<json>", written |-> written]

\* JSON.parse(text): throws a SyntaxError unless the text is JSON
JSONparse(body) ==
    IF body.kind = "json"
    THEN [ok |-> TRUE, value |-> JSONparseValue(body.written)]
    ELSE [ok |-> FALSE, value |-> JsonNull]

PairTokens(p) == <<p.key, ":", p.atom>>

ItemTokens(item) == <<"{">> \o Join([i \in 1..Len(item) |-> PairTokens(item[i])], <<",">>) \o <<"}">>

ItemsTokens(items) == <<"[">> \o Join([i \in 1..Len(items) |-> ItemTokens(items[i])], <<",">>) \o <<"]">>

MemberTokens(m) ==
    IF m.atom = "[]" THEN <<m.key, ":">> \o ItemsTokens(m.items)
    ELSE <<m.key, ":", m.atom>>

\* JSON.stringify(value, null, 2)
JSONstringify(value) ==
    IF value.shape = "null" THEN <<"null">>
    ELSE IF value.shape = "array" THEN ItemsTokens(value.elems)
    ELSE <<"{">> \o Join([i \in 1..Len(value.members) |-> MemberTokens(value.members[i])], <<",">>) \o <<"}">>

\* value[key] for an object or array value; undefined when there is none
HasKey(value, key) ==
    \E i \in 1..Len(value.members) : value.members[i].key = key

GetMember(value, key) ==
    value.members[CHOOSE i \in 1..Len(value.members) :
                      value.members[i].key = key]

Get(value, key) ==
    IF HasKey(value, key) THEN GetMember(value, key).atom ELSE UNDEF

\* truthiness of a scalar read from parsed JSON
JsonTruthy(atom) == atom \notin {UNDEF, "", "null", "false", "0"}

(***************************************************************************)
(* utils/helpers.ts: configuration and the request helper                  *)
(***************************************************************************)
DEFAULT_CONFIG ==
    [token      |-> "***REMOVED***",
     instanceID |-> "d20dba45-852a-4bfc-ab43-8bfd2d28c2a4",
     baseUrl    |-> "https://wapulseserver.com:3003"]

getConfig(e) ==
    [token      |-> Or(e.WAPULSE_TOKEN, DEFAULT_CONFIG.token),
     instanceID |-> Or(e.WAPULSE_INSTANCE_ID, DEFAULT_CONFIG.instanceID),
     baseUrl    |-> Or(e.WAPULSE_BASE_URL, DEFAULT_CONFIG.baseUrl)]

\* response.ok
StatusOk(status) == status >= 200 /\ status <= 299

NullBody == [kind |-> "json", raw |-> "null", written |-> JsonNull]

NoResponse == [status |-> 0, statusText |-> "", body |-> EmptyBody]

NotFetched == [kind |-> "none", response |-> NoResponse]

FetchFailed == [kind |-> "failed", response |-> NoResponse]

Fetched(response) == [kind |-> "response", response |-> response]

\* handleApiError(response, errorText) with errorText = the response body.
\* Reading errorData.error of a parsed null throws inside the try block.
handleApiError(response) ==
    LET httpMessage ==
            <<"HTTP ", ToString(response.status), ": ", response.statusText>>
        errorText == response.body
        parsed    == JSONparse(errorText)
        errorData == parsed.value
    IN  IF errorText.kind = "empty" THEN httpMessage
        ELSE IF ~parsed.ok \/ errorData.shape = "null" THEN <<errorText.raw>>
        ELSE IF JsonTruthy(Get(errorData, "error"))
             THEN <<Get(errorData, "error")>>
                  \o (IF JsonTruthy(Get(errorData, "details"))
                      THEN <<" - ", Get(errorData, "details")>>
                      ELSE <<>>)
             ELSE httpMessage

\* the fields of `data` other than token and instanceID
NoPayload ==
    [to |-> <<>>, message |-> UNDEF, type |-> UNDEF, id |-> UNDEF,
     name |-> UNDEF, participants |-> <<>>, numbers |-> <<>>,
     files |-> <<>>, city |-> UNDEF]

\* `data` without a token or instanceID property of its own
Data(payload) ==
    [hasToken |-> FALSE, token |-> UNDEF,
     hasInstanceID |-> FALSE, instanceID |-> UNDEF, payload |-> payload]

\* { token, instanceID, ...data }: a property of data replaces the resolved
\* one; JSON.stringify then omits a property whose value is undefined.
requestBodySpreadFirst(token, instanceID, data) ==
    [token |-> token, instanceID |-> instanceID, payload |-> data.payload]

requestBody(token, instanceID, data) ==
    [token      |-> IF data.hasToken THEN data.token ELSE token,
     instanceID |-> IF data.hasInstanceID THEN data.instanceID ELSE instanceID,
     payload    |-> data.payload]

\* makeApiRequest up to the awaited fetch
makeApiRequestStart(e, endpoint, data, customToken, customInstanceID) ==
    LET cfg        == getConfig(e)
        token      == Or(customToken, cfg.token)
        instanceID == Or(customInstanceID, cfg.instanceID)
    IN  IF ~Truthy(token)
        THEN Throw(McpError(InvalidParams, <<"WaPulse token not configured.">>))
        ELSE IF ~Truthy(instanceID)
        THEN Throw(McpError(InvalidParams,
                            <<"WaPulse instance ID not configured.">>))
        ELSE [kind    |-> "fetch",
              request |-> [dest     |-> "gateway",
                           method   |-> "POST",
                           url      |-> cfg.baseUrl,
                           endpoint |-> endpoint,
                           auth     |-> UNDEF,
                           body     |-> requestBody(token, instanceID, data)]]

\* the helper without the catch around JSON.parse
makeApiRequestEndStrict(f) ==
    IF f.kind = "failed" THEN Throw(TypeError(<<"fetch failed">>))
    ELSE IF ~StatusOk(f.response.status)
    THEN Throw(McpError(InternalError, handleApiError(f.response)))
    ELSE LET parsed == JSONparse(f.response.body)
         IN  IF parsed.ok THEN [kind |-> "value", value |-> parsed.value]
             ELSE Throw(Error(<<"Unexpected token">>))

\* makeApiRequest after the fetch has settled
makeApiRequestEnd(f) ==
    IF f.kind = "failed" THEN Throw(TypeError(<<"fetch failed">>))
    ELSE IF ~StatusOk(f.response.status)
    THEN Throw(McpError(InternalError, handleApiError(f.response)))
    ELSE LET parsed == JSONparse(f.response.body)
         IN  IF parsed.ok THEN [kind |-> "value", value |-> parsed.value]
             ELSE [kind  |-> "value",
                   value |-> JsonObject(<<Member("success", "true"),
                                          Member("data", f.response.body.raw)>>)]

(***************************************************************************)
(* utils/config.ts: the configuration singleton                            *)
(***************************************************************************)
EmptyGlobalConfig == [wapulseToken |-> UNDEF, wapulseInstanceID |-> UNDEF]

\* query is what searchParams.get returns for the two names (UNDEF: null)
parseConfigFromUrl(gc, query) ==
    [wapulseToken      |-> IF Truthy(query.wapulseToken)
                           THEN query.wapulseToken ELSE gc.wapulseToken,
     wapulseInstanceID |-> IF Truthy(query.wapulseInstanceID)
                           THEN query.wapulseInstanceID
                           ELSE gc.wapulseInstanceID]

parseConfigFromEnv(gc, e) ==
    [wapulseToken      |-> IF Truthy(e.WAPULSE_TOKEN) /\ ~Truthy(gc.wapulseToken)
                           THEN e.WAPULSE_TOKEN ELSE gc.wapulseToken,
     wapulseInstanceID |-> IF Truthy(e.WAPULSE_INSTANCE_ID)
                              /\ ~Truthy(gc.wapulseInstanceID)
                           THEN e.WAPULSE_INSTANCE_ID
                           ELSE gc.wapulseInstanceID]

getEffectiveConfig(gc, e, customToken, customInstanceID) ==
    LET token      == Or(Or(customToken, gc.wapulseToken), e.WAPULSE_TOKEN)
        instanceID == Or(Or(customInstanceID, gc.wapulseInstanceID),
                         e.WAPULSE_INSTANCE_ID)
    IN  IF ~Truthy(token) \/ ~Truthy(instanceID)
        THEN Throw(Error(<<"WaPulse configuration required.">>))
        ELSE [kind |-> "config", token |-> token, instanceID |-> instanceID]

(***************************************************************************)
(* The rate limiter (second half of utils/helpers.ts).  A key of the map   *)
(* is the string `${userId}:${bucket}`, kept as the pair <<userId, bucket>>;*)
(* the minute keys and the hour keys share the one map.                    *)
(***************************************************************************)
DEFAULT_RATE_LIMITS == [requestsPerMinute |-> 60, requestsPerHour |-> 1000]

\* rateLimitMap.get(key) || fallback
MapGet(map, key, fallback) == IF key \in DOMAIN map THEN map[key] ELSE fallback

\* rateLimitMap.set(key, value)
MapSet(map, key, value) ==
    [k \in DOMAIN map \cup {key} |-> IF k = key THEN value ELSE map[k]]

\* rateLimit || DEFAULT_RATE_LIMITS; the optional rateLimit is a sequence of
\* at most one record
limitsOf(rateLimit) ==
    IF rateLimit = <<>> THEN DEFAULT_RATE_LIMITS ELSE rateLimit[1]

\* the limiter writing the minute counter before it checks the hour limit
checkRateLimitCountsFirst(map, userId, rateLimit, t) ==
    LET limits     == limitsOf(rateLimit)
        minuteKey  == <<userId, t \div 60000>>
        minuteData == MapGet(map, minuteKey, [count |-> 0, resetTime |-> t + 60000])
        counted    == MapSet(map, minuteKey,
                             [count     |-> minuteData.count + 1,
                              resetTime |-> minuteData.resetTime])
        hourKey    == <<userId, t \div 3600000>>
        hourData   == MapGet(counted, hourKey,
                             [count |-> 0, resetTime |-> t + 3600000])
        updated    == MapSet(counted, hourKey,
                             [count     |-> hourData.count + 1,
                              resetTime |-> hourData.resetTime])
        kept       == {k \in DOMAIN updated : ~(updated[k].resetTime < t)}
    IN  IF minuteData.count >= limits.requestsPerMinute
        THEN [err |-> McpError(InternalError, <<"Rate limit exceeded">>),
              map |-> map]
        ELSE IF hourData.count >= limits.requestsPerHour
        THEN [err |-> McpError(InternalError, <<"Rate limit exceeded">>),
              map |-> counted]
        ELSE [err |-> NoError, map |-> [k \in kept |-> updated[k]]]

\* checkRateLimit(userId, rateLimit) at Date.now() = t: the error thrown,
\* if any, and the map afterwards
checkRateLimit(map, userId, rateLimit, t) ==
    LET limits     == limitsOf(rateLimit)
        minuteKey  == <<userId, t \div 60000>>
        minuteData == MapGet(map, minuteKey, [count |-> 0, resetTime |-> t + 60000])
        hourKey    == <<userId, t \div 3600000>>
        hourData   == MapGet(map, hourKey, [count |-> 0, resetTime |-> t + 3600000])
        updated    == MapSet(MapSet(map, minuteKey,
                                    [count     |-> minuteData.count + 1,
                                     resetTime |-> minuteData.resetTime]),
                             hourKey,
                             [count     |-> hourData.count + 1,
                              resetTime |-> hourData.resetTime])
        kept       == {k \in DOMAIN updated : ~(updated[k].resetTime < t)}
    IN  IF minuteData.count >= limits.requestsPerMinute
        THEN [err |-> McpError(InternalError,
                         <<"Rate limit exceeded: ",
                           ToString(limits.requestsPerMinute),
                           " requests per minute.">>),
              map |-> map]
        ELSE IF hourData.count >= limits.requestsPerHour
        THEN [err |-> McpError(InternalError,
                         <<"Rate limit exceeded: ",
                           ToString(limits.requestsPerHour),
                           " requests per hour.">>),
              map |-> map]
        ELSE [err |-> NoError, map |-> [k \in kept |-> updated[k]]]

RateIdle ==
    /\ rateLimitMap = <<>>
    /\ now = 0
    /\ rateCalls = <<>>

(***************************************************************************)
(* stdio-index.ts: the tool list and the CallTool switch                   *)
(***************************************************************************)
\* tool.name of every element of allTools, in order
allTools ==
    <<"send_whatsapp_message", "send_whatsapp_files", "send_whatsapp_audio",
      "load_chat_messages", "check_id_exists", "validate_phone_number",
      "get_all_chats", "get_wapulse_documentation",
      "create_whatsapp_group", "add_group_participants",
      "remove_group_participants", "promote_group_participants",
      "demote_group_participants", "leave_whatsapp_group",
      "get_group_invite_link", "change_group_invite_code",
      "get_group_requests", "reject_group_request", "approve_group_request",
      "get_all_groups",
      "create_instance", "get_qr_code", "start_instance", "stop_instance",
      "delete_instance">>

\* the same switch with the send_whatsapp_audio case left out
CallToolSwitchNoAudio ==
    [send_whatsapp_message      |-> "handleSendMessage",
     send_whatsapp_files        |-> "handleSendFiles",
     load_chat_messages         |-> "handleLoadChatAllMessages",
     check_id_exists            |-> "handleIsExists",
     validate_phone_number      |-> "handleValidatePhoneNumber",
     get_all_chats              |-> "handleGetAllChats",
     get_wapulse_documentation  |-> "handleGetWapulseDoc",
     create_whatsapp_group      |-> "handleCreateGroup",
     add_group_participants     |-> "handleAddParticipants",
     remove_group_participants  |-> "handleRemoveParticipants",
     promote_group_participants |-> "handlePromoteParticipants",
     demote_group_participants  |-> "handleDemoteParticipants",
     leave_whatsapp_group       |-> "handleLeaveGroup",
     get_group_invite_link      |-> "handleGetGroupInviteLink",
     change_group_invite_code   |-> "handleChangeGroupInviteCode",
     get_group_requests         |-> "handleGetGroupRequests",
     reject_group_request       |-> "handleRejectGroupRequest",
     approve_group_request      |-> "handleApproveGroupRequest",
     get_all_groups             |-> "handleGetAllGroups",
     create_instance            |-> "handleCreateInstance",
     get_qr_code                |-> "handleGetQrCode",
     start_instance             |-> "handleStartInstance",
     stop_instance              |-> "handleStopInstance",
     delete_instance            |-> "handleDeleteInstance"]

\* the case labels of the CallTool switch and the handler each one calls
CallToolSwitch ==
    [send_whatsapp_message      |-> "handleSendMessage",
     send_whatsapp_files        |-> "handleSendFiles",
     send_whatsapp_audio        |-> "handleSendAudio",
     load_chat_messages         |-> "handleLoadChatAllMessages",
     check_id_exists            |-> "handleIsExists",
     validate_phone_number      |-> "handleValidatePhoneNumber",
     get_all_chats              |-> "handleGetAllChats",
     get_wapulse_documentation  |-> "handleGetWapulseDoc",
     create_whatsapp_group      |-> "handleCreateGroup",
     add_group_participants     |-> "handleAddParticipants",
     remove_group_participants  |-> "handleRemoveParticipants",
     promote_group_participants |-> "handlePromoteParticipants",
     demote_group_participants  |-> "handleDemoteParticipants",
     leave_whatsapp_group       |-> "handleLeaveGroup",
     get_group_invite_link      |-> "handleGetGroupInviteLink",
     change_group_invite_code   |-> "handleChangeGroupInviteCode",
     get_group_requests         |-> "handleGetGroupRequests",
     reject_group_request       |-> "handleRejectGroupRequest",
     approve_group_request      |-> "handleApproveGroupRequest",
     get_all_groups             |-> "handleGetAllGroups",
     create_instance            |-> "handleCreateInstance",
     get_qr_code                |-> "handleGetQrCode",
     start_instance             |-> "handleStartInstance",
     stop_instance              |-> "handleStopInstance",
     delete_instance            |-> "handleDeleteInstance"]

\* switch (name): the handler that is called, or the default case's throw,
\* which the catch of the request handler turns into an error response
dispatch(name) ==
    IF name \in DOMAIN CallToolSwitch
    THEN [name |-> name, handler |-> CallToolSwitch[name], isError |-> FALSE,
          text |-> <<>>]
    ELSE [name |-> name, handler |-> "none", isError |-> TRUE,
          text |-> <<"Error: ">> \o Error(<<"Unknown tool: ", name>>).message]

\* names that no case of the switch matches
UnlistedTools == {"send_whatsapp_video"}

DispatchIdle ==
    /\ listed = <<>>
    /\ dispatched = <<>>

(***************************************************************************)
(* Tool arguments.  A phone number or list that is left out is the empty   *)
(* one; any other argument that is left out is UNDEF.                      *)
(***************************************************************************)
\* the `audio` argument when it is left out; a given one holds the data as a
\* text whose first fragment is its 'data:<type>/' prefix, the filename as
\* its characters and isVoiceNote as "true", "false" or UNDEF
NoAudio ==
    [given |-> FALSE, file |-> <<>>, filename |-> <<>>, caption |-> UNDEF,
     isVoiceNote |-> UNDEF]

BlankArgs ==
    [to |-> <<>>, message |-> UNDEF, type |-> UNDEF, id |-> UNDEF,
     name |-> UNDEF, participants |-> <<>>, numbers |-> <<>>,
     files |-> <<>>, audio |-> NoAudio, phoneNumber |-> <<>>,
     token |-> UNDEF, instanceID |-> UNDEF,
     customToken |-> UNDEF, customInstanceID |-> UNDEF,
     city |-> UNDEF, dateFrom |-> 0, dateTo |-> 0, prebookId |-> 0]

LongName == "<a group name of 101 characters>"

\* String.prototype.length of the argument strings that are enumerated
StrLen(str) ==
    IF str = "" THEN 0 ELSE IF str = LongName THEN 101 ELSE 5

Return(text) == [kind |-> "return", text |-> text]

\* catch (error) { throw new UserError(`${prefix}${error.message}`) }
RethrowUserError(prefix, step) ==
    IF step.kind = "throw"
    THEN Throw(UserError(prefix \o step.err.message))
    ELSE step

\* catch (error) { throw new McpError(ErrorCode.InternalError, ...) }
RethrowInternalError(prefix, step) ==
    IF step.kind = "throw"
    THEN Throw(McpError(InternalError, prefix \o step.err.message))
    ELSE step

(***************************************************************************)
(* handleSendMessage                                                       *)
(***************************************************************************)
sendMessageSchema(a) ==
    /\ phoneRegex(a.to)
    /\ a.message # UNDEF /\ StrLen(a.message) >= 1 /\ StrLen(a.message) <= 4096
    /\ a.type \in {UNDEF, "user", "group"}

sendMessagePayload(a) ==
    [NoPayload EXCEPT !.to = a.to, !.message = a.message,
                      !.type = Nullish(a.type, "user")]

sendMessageFailed(a) ==
    <<"Failed to send message to ">> \o formatPhoneNumber(a.to) \o <<": ">>

sendMessageText(a, value) ==
    <<"Message sent successfully to ">> \o formatPhoneNumber(a.to)
        \o <<"! Recipient: ">> \o formatPhoneNumber(a.to)
        \o <<" Message: ", a.message, " Response: ">> \o JSONstringify(value)

handleSendMessageStart(a, e) ==
    IF ~sendMessageSchema(a)
    THEN Throw(ZodError(IF ~phoneRegex(a.to)
                        THEN <<"to", ": ", "Invalid phone number format">>
                        ELSE <<"Invalid arguments">>))
    ELSE IF ~validatePhoneNumber(a.to)
    THEN Throw(UserError(<<"Invalid phone number format: ">> \o a.to
                         \o <<". Use format: country code + number">>))
    ELSE RethrowUserError(sendMessageFailed(a),
            makeApiRequestStart(e, "/api/sendMessage",
                                Data(sendMessagePayload(a)),
                                a.customToken, a.customInstanceID))

handleSendMessageSummaryOnly(a, f) ==
    LET r == makeApiRequestEnd(f)
    IN  IF r.kind = "throw" THEN RethrowUserError(sendMessageFailed(a), r)
        ELSE Return(<<"Message sent successfully to ">>
                    \o formatPhoneNumber(a.to)
                    \o <<" Status: ", Get(r.value, "message")>>)

handleSendMessageEnd(a, f) ==
    LET r == makeApiRequestEnd(f)
    IN  IF r.kind = "throw" THEN RethrowUserError(sendMessageFailed(a), r)
        ELSE Return(sendMessageText(a, r.value))

(***************************************************************************)
(* server.ts: the inline send_whatsapp_message tool                        *)
(***************************************************************************)
serverSendMessageStart(a, e, gc) ==
    LET effective == getEffectiveConfig(gc, e, a.customToken, a.customInstanceID)
    IN  IF effective.kind = "throw" THEN effective
        ELSE IF ~validatePhoneNumber(a.to)
        THEN Throw(UserError(<<"Invalid phone number format: ">> \o a.to
                             \o <<". Use format: country code + number">>))
        ELSE makeApiRequestStart(e, "/api/sendMessage",
                                 Data(sendMessagePayload(a)),
                                 effective.token, effective.instanceID)

serverSendMessageEnd(a, f) ==
    LET r == makeApiRequestEnd(f)
    IN  IF r.kind = "throw" THEN r ELSE Return(sendMessageText(a, r.value))

(***************************************************************************)
(* handleCreateGroup                                                       *)
(***************************************************************************)
createGroupSchema(a) ==
    /\ a.name # UNDEF /\ StrLen(a.name) >= 1 /\ StrLen(a.name) <= 100
    /\ Len(a.participants) >= 1 /\ Len(a.participants) <= 256
    /\ \A i \in 1..Len(a.participants) : phoneRegex(a.participants[i])

\* a helper that wants at least two participants
validateParticipantsPair(participants) ==
    IF Len(participants) <= 1
    THEN Throw(McpError(InvalidParams,
                        <<"At least one participant must be provided.">>))
    ELSE [kind |-> "ok"]

\* validateParticipants: the first complaint, or none
validateParticipants(participants) ==
    IF Len(participants) = 0
    THEN Throw(McpError(InvalidParams,
                        <<"At least one participant must be provided.">>))
    ELSE IF \E i \in 1..Len(participants) : ~validatePhoneNumber(participants[i])
    THEN LET i == CHOOSE i \in 1..Len(participants) :
                      /\ ~validatePhoneNumber(participants[i])
                      /\ \A j \in 1..(i - 1) : validatePhoneNumber(participants[j])
         IN  Throw(McpError(InvalidParams,
                            <<"Invalid phone number format: ">> \o participants[i]
                            \o <<". Use format: country code + number">>))
    ELSE [kind |-> "ok"]

createGroupFailed(a) == <<"Failed to create WhatsApp group ", a.name, ": ">>

formattedParticipants(participants) ==
    Join([i \in 1..Len(participants) |-> formatPhoneNumber(participants[i])], <<"\n">>)

handleCreateGroupStart(a, e) ==
    IF ~createGroupSchema(a)
    THEN Throw(ZodError(IF \E i \in 1..Len(a.participants) :
                              ~phoneRegex(a.participants[i])
                        THEN <<"participants", ": ",
                               "Invalid phone number format">>
                        ELSE <<"Invalid arguments">>))
    ELSE RethrowUserError(createGroupFailed(a),
            IF validateParticipants(a.participants).kind = "throw"
            THEN validateParticipants(a.participants)
            ELSE makeApiRequestStart(e, "/api/createGroup",
                    Data([NoPayload EXCEPT !.name = a.name,
                                           !.participants = a.participants]),
                    a.customToken, a.customInstanceID))

\* response.groupId is read for the log line only
handleCreateGroupEnd(a, hasLog, f) ==
    LET r == makeApiRequestEnd(f)
    IN  RethrowUserError(createGroupFailed(a),
            IF r.kind = "throw" THEN r
            ELSE IF hasLog /\ r.value.shape = "null"
            THEN Throw(TypeError(<<"Cannot read properties of null">>))
            ELSE Return(<<"WhatsApp group created successfully! Group Name: ",
                          a.name, " Participants: ",
                          ToString(Len(a.participants)), " Members: ">>
                        \o formattedParticipants(a.participants)
                        \o <<" Response: ">> \o JSONstringify(r.value)))

(***************************************************************************)
(* handleLoadChatAllMessages and server.ts's inline load_chat_messages     *)
(***************************************************************************)
loadChatSchema(a) == a.id # UNDEF /\ a.type \in {"user", "group"}

loadChatFailed(a) ==
    <<"Failed to load messages from ", a.type, " chat ", a.id, ": ">>

loadChatPayload(a) == [NoPayload EXCEPT !.id = a.id, !.type = a.type]

\* Array.isArray(response.messages) ? response.messages : []
responseMessages(value) ==
    IF HasKey(value, "messages") /\ Get(value, "messages") = "[]"
    THEN GetMember(value, "messages").items
    ELSE <<>>

loadChatText(a, value) ==
    <<"Chat messages loaded successfully! Chat ID: ", a.id, " Type: ", a.type,
      " Messages found: ", ToString(Len(responseMessages(value))),
      " Full Response: ">> \o JSONstringify(value)

\* reading response.messages of a parsed null throws
loadChatReturn(a, r) ==
    IF r.kind = "throw" THEN r
    ELSE IF r.value.shape = "null"
    THEN Throw(TypeError(<<"Cannot read properties of null">>))
    ELSE Return(loadChatText(a, r.value))

handleLoadChatAllMessagesStart(a, e) ==
    IF ~loadChatSchema(a) THEN Throw(ZodError(<<"Invalid arguments">>))
    ELSE RethrowInternalError(loadChatFailed(a),
            makeApiRequestStart(e, "/api/loadChatAllMessages",
                                Data(loadChatPayload(a)),
                                a.customToken, a.customInstanceID))

ItemGet(item, key) ==
    IF \E i \in 1..Len(item) : item[i].key = key
    THEN item[CHOOSE i \in 1..Len(item) : item[i].key = key].atom
    ELSE UNDEF

\* the loop over the first ten messages: imageContent({ url }) downloads
\* the media of every image message
imageDownloads(messages) ==
    LET shown == SubSeq(messages, 1, Min(Len(messages), 10))
        IsImage(msg) == /\ ItemGet(msg, "type") = "image"
                        /\ JsonTruthy(ItemGet(msg, "mediaUrl"))
        Download(msg) == [dest |-> "media", method |-> "GET",
                          url |-> ItemGet(msg, "mediaUrl"), endpoint |-> "",
                          auth |-> UNDEF,
                          body |-> requestBody(UNDEF, UNDEF, Data(NoPayload))]
    IN  [i \in 1..Len(SelectSeq(shown, IsImage)) |-> Download(SelectSeq(shown, IsImage)[i])]

serverLoadChatDownloads(a, f) ==
    LET r == makeApiRequestEnd(f)
    IN  IF r.kind = "throw" \/ r.value.shape = "null" THEN <<>>
        ELSE imageDownloads(responseMessages(r.value))

\* the handler streams the URL of an image as text and downloads nothing;
\* the variant that downloads as the execute function of server.ts does
handleLoadChatAllMessagesFetchesMedia(a, f) ==
    serverLoadChatDownloads(a, f)

handleLoadChatAllMessagesDownloads(a, f) == <<>>

handleLoadChatAllMessagesEnd(a, f) ==
    RethrowInternalError(loadChatFailed(a),
                         loadChatReturn(a, makeApiRequestEnd(f)))

serverLoadChatStart(a, e) ==
    makeApiRequestStart(e, "/api/loadChatAllMessages", Data(loadChatPayload(a)),
                        a.customToken, a.customInstanceID)

serverLoadChatEnd(a, f) == loadChatReturn(a, makeApiRequestEnd(f))

(***************************************************************************)
(* The group tools that take a list of phone numbers: handleAddParticipants,*)
(* handleRemoveParticipants, handlePromoteParticipants,                    *)
(* handleDemoteParticipants, handleRejectGroupRequest and                  *)
(* handleApproveGroupRequest.  They differ in the name of the list, its    *)
(* maximum length, the endpoint, the message template and the class of the *)
(* error the catch block throws.                                           *)
(***************************************************************************)
GroupListTools ==
    {"add_group_participants", "remove_group_participants",
     "promote_group_participants", "demote_group_participants",
     "reject_group_request", "approve_group_request"}

groupListTool(tool) ==
    CASE tool = "add_group_participants" ->
            [field |-> "participants", maxItems |-> 50,
             endpoint |-> "/api/addParticipants", rethrow |-> "UserError",
             failed |-> "Failed to add participants to group "]
      [] tool = "remove_group_participants" ->
            [field |-> "participants", maxItems |-> 50,
             endpoint |-> "/api/removeParticipants", rethrow |-> "McpError",
             failed |-> "Failed to remove participants from group "]
      [] tool = "promote_group_participants" ->
            [field |-> "participants", maxItems |-> 20,
             endpoint |-> "/api/promoteParticipants", rethrow |-> "McpError",
             failed |-> "Failed to promote participants in group "]
      [] tool = "demote_group_participants" ->
            [field |-> "participants", maxItems |-> 20,
             endpoint |-> "/api/demoteParticipants", rethrow |-> "UserError",
             failed |-> "Failed to demote participants in group "]
      [] tool = "reject_group_request" ->
            [field |-> "numbers", maxItems |-> 20,
             endpoint |-> "/api/rejectGroupRequest", rethrow |-> "McpError",
             failed |-> "Failed to reject group requests for group "]
      [] OTHER ->
            [field |-> "numbers", maxItems |-> 20,
             endpoint |-> "/api/approveGroupRequest", rethrow |-> "UserError",
             failed |-> "Failed to approve group requests for group "]

\* the schema without the upper limit on the list
groupListSchemaUnbounded(tool, a) ==
    LET list == a[groupListTool(tool).field]
    IN  /\ a.id # UNDEF /\ StrLen(a.id) >= 1
        /\ Len(list) >= 1
        /\ \A i \in 1..Len(list) : phoneRegex(list[i])

groupListSchema(tool, a) ==
    LET list == a[groupListTool(tool).field]
    IN  /\ a.id # UNDEF /\ StrLen(a.id) >= 1
        /\ Len(list) >= 1 /\ Len(list) <= groupListTool(tool).maxItems
        /\ \A i \in 1..Len(list) : phoneRegex(list[i])

\* the catch block of the handler
groupListRethrow(tool, a, step) ==
    LET prefix == <<groupListTool(tool).failed, a.id, ": ">>
    IN  IF groupListTool(tool).rethrow = "UserError"
        THEN RethrowUserError(prefix, step)
        ELSE RethrowInternalError(prefix, step)

\* a handler that drops the malformed numbers and sends the rest
handleGroupListStartSkipsInvalid(tool, a, e) ==
    LET t    == groupListTool(tool)
        list == SelectSeq(a[t.field], validatePhoneNumber)
    IN  groupListRethrow(tool, a,
            IF validateParticipants(list).kind = "throw"
            THEN validateParticipants(list)
            ELSE makeApiRequestStart(e, t.endpoint,
                    Data([NoPayload EXCEPT !.id = a.id, ![t.field] = list]),
                    a.customToken, a.customInstanceID))

handleGroupListStart(tool, a, e) ==
    LET t    == groupListTool(tool)
        list == a[t.field]
    IN  IF ~groupListSchema(tool, a)
        THEN Throw(ZodError(IF \E i \in 1..Len(list) : ~phoneRegex(list[i])
                            THEN <<t.field, ": ", "Invalid phone number format">>
                            ELSE <<"Invalid arguments">>))
        ELSE groupListRethrow(tool, a,
                IF validateParticipants(list).kind = "throw"
                THEN validateParticipants(list)
                ELSE makeApiRequestStart(e, t.endpoint,
                        Data([NoPayload EXCEPT !.id = a.id, ![t.field] = list]),
                        a.customToken, a.customInstanceID))

\* the request handlers read response.success before building the text
handleGroupListEnd(tool, a, f) ==
    LET t    == groupListTool(tool)
        list == a[t.field]
        r    == makeApiRequestEnd(f)
    IN  groupListRethrow(tool, a,
            IF r.kind = "throw" THEN r
            ELSE IF t.field = "numbers" /\ r.value.shape = "null"
            THEN Throw(TypeError(<<"Cannot read properties of null">>))
            ELSE Return(<<"Group ID: ", a.id, " Count: ", ToString(Len(list)),
                          " Members: ">>
                        \o formattedParticipants(list)
                        \o <<" Response: ">> \o JSONstringify(r.value)))

(***************************************************************************)
(* handleSendFiles and server.ts's inline send_whatsapp_files.  A file is  *)
(* [file, filename, caption]; its data is a text whose first fragment is   *)
(* the 'data:' prefix when it has one.                                     *)
(***************************************************************************)
sendFilesSchema(a) ==
    /\ phoneRegex(a.to)
    /\ Len(a.files) >= 1 /\ Len(a.files) <= 10

\* the checks between schema.parse and the request: the recipient, then
\* file.file.startsWith('data:') for each file in turn
sendFilesInvalid(a) ==
    LET startsWithData(file) == file.file # <<>> /\ Head(file.file) = "data:"
        bad == {i \in 1..Len(a.files) : ~startsWithData(a.files[i])}
    IN  IF ~validatePhoneNumber(a.to)
        THEN <<"Invalid phone number format: ">> \o a.to
                 \o <<". Use format: country code + number">>
        ELSE IF bad # {}
        THEN <<"Invalid file format for ",
               a.files[CHOOSE i \in bad : \A j \in bad : i <= j].filename,
               ". File must be base64 encoded with data URI prefix">>
        ELSE <<>>

sendFilesText(a, value) ==
    <<"Files sent successfully to ">> \o formatPhoneNumber(a.to)
        \o <<"! Files sent: ">>
        \o Join([i \in 1..Len(a.files) |-> <<a.files[i].filename>>], <<"\n">>)
        \o <<" Response: ">> \o JSONstringify(value)

sendFilesRequest(a, e) ==
    makeApiRequestStart(e, "/api/sendFiles",
                        Data([NoPayload EXCEPT !.to = a.to, !.files = a.files]),
                        a.customToken, a.customInstanceID)

handleSendFilesStart(a, e) ==
    IF ~sendFilesSchema(a) THEN Throw(ZodError(<<"Invalid arguments">>))
    ELSE IF sendFilesInvalid(a) # <<>>
    THEN Throw(McpError(InvalidParams, sendFilesInvalid(a)))
    ELSE RethrowInternalError(
            <<"Failed to send files to ">> \o formatPhoneNumber(a.to) \o <<": ">>,
            sendFilesRequest(a, e))

handleSendFilesEnd(a, f) ==
    LET r == makeApiRequestEnd(f)
    IN  RethrowInternalError(
            <<"Failed to send files to ">> \o formatPhoneNumber(a.to) \o <<": ">>,
            IF r.kind = "throw" THEN r ELSE Return(sendFilesText(a, r.value)))

\* the inline tool has no try/catch
serverSendFilesStart(a, e) ==
    IF sendFilesInvalid(a) # <<>> THEN Throw(UserError(sendFilesInvalid(a)))
    ELSE sendFilesRequest(a, e)

serverSendFilesEnd(a, f) ==
    LET r == makeApiRequestEnd(f)
    IN  IF r.kind = "throw" THEN r ELSE Return(sendFilesText(a, r.value))

\* the reports of handleSendFiles (and of the inline tool) before the
\* request: { progress: 0, total: files.length }
handleSendFilesReportsStart(a, reportProgress) ==
    IF sendFilesSchema(a) /\ sendFilesInvalid(a) = <<>> /\ reportProgress
    THEN <<[progress |-> 0, total |-> Len(a.files)]>>
    ELSE <<>>

\* the handler reporting completion whatever makeApiRequest did
handleSendFilesReportsEndAlways(a, reportProgress, f) ==
    IF reportProgress
    THEN <<[progress |-> Len(a.files), total |-> Len(a.files)]>>
    ELSE <<>>

\* the report after makeApiRequest has returned
handleSendFilesReportsEnd(a, reportProgress, f) ==
    IF reportProgress /\ makeApiRequestEnd(f).kind = "value"
    THEN <<[progress |-> Len(a.files), total |-> Len(a.files)]>>
    ELSE <<>>

(***************************************************************************)
(* handleSendAudio and server.ts's inline send_whatsapp_audio              *)
(***************************************************************************)
UpperCase == <<"A", "C", "F", "G", "L", "M", "O", "P", "S", "U", "V", "W">>

LowerCase == <<"a", "c", "f", "g", "l", "m", "o", "p", "s", "u", "v", "w">>

\* String.prototype.toLowerCase over the letters that are enumerated
toLowerCase(s) ==
    [i \in 1..Len(s) |->
        IF \E k \in 1..Len(UpperCase) : UpperCase[k] = s[i]
        THEN LowerCase[CHOOSE k \in 1..Len(UpperCase) : UpperCase[k] = s[i]]
        ELSE s[i]]

\* String.prototype.endsWith
endsWith(s, suffix) ==
    /\ Len(suffix) <= Len(s)
    /\ SubSeq(s, Len(s) - Len(suffix) + 1, Len(s)) = suffix

audioExtensions ==
    << <<".", "m", "p", "3">>, <<".", "w", "a", "v">>, <<".", "o", "g", "g">>,
       <<".", "m", "4", "a">>, <<".", "a", "a", "c">>,
       <<".", "o", "p", "u", "s">>, <<".", "f", "l", "a", "c">> >>

sendAudioSchema(a) ==
    /\ phoneRegex(a.to)
    /\ a.audio.given

\* the check with the prefix of handleSendFiles: file.startsWith('data:')
startsWithAnyData(audio) ==
    audio.file # <<>> /\ Head(audio.file) \in {"data:", "data:audio/"}

\* audio.file.startsWith('data:audio/')
startsWithAudio(audio) == audio.file # <<>> /\ Head(audio.file) = "data:audio/"

\* audioExtensions.some(ext => audio.filename.toLowerCase().endsWith(ext))
hasValidExtension(audio) ==
    \E k \in 1..Len(audioExtensions) :
        endsWith(toLowerCase(audio.filename), audioExtensions[k])

\* the checks between schema.parse and the try block: the message of the
\* UserError, or <<>>
sendAudioInvalid(a) ==
    IF ~validatePhoneNumber(a.to)
    THEN <<"Invalid phone number format: ">> \o a.to
             \o <<". Use format: country code + number">>
    ELSE IF ~startsWithAudio(a.audio)
    THEN <<"Invalid audio format for \"">> \o a.audio.filename
             \o <<"\". File must be base64 encoded audio with data URI prefix">>
    ELSE IF ~hasValidExtension(a.audio)
    THEN <<"Invalid audio file extension for \"">> \o a.audio.filename
             \o <<"\". Supported formats: ">>
             \o Join(audioExtensions, <<", ">>)
    ELSE <<>>

\* isVoiceNote: z.boolean().default(false)
isVoiceNote(audio) == audio.isVoiceNote = "true"

sendAudioPayload(a) ==
    [NoPayload EXCEPT
        !.to = a.to,
        !.files = <<[file     |-> a.audio.file,
                     filename |-> a.audio.filename,
                     caption  |-> a.audio.caption,
                     type     |-> IF isVoiceNote(a.audio) THEN "voice"
                                  ELSE "audio"]>>]

sendAudioRequest(a, e) ==
    makeApiRequestStart(e, "/api/sendFiles", Data(sendAudioPayload(a)),
                        a.customToken, a.customInstanceID)

sendAudioText(a, value) ==
    <<"Audio sent successfully to ">> \o formatPhoneNumber(a.to)
        \o <<"! ", IF isVoiceNote(a.audio) THEN "Voice Note" ELSE "Audio File",
             ": ">>
        \o a.audio.filename
        \o (IF Truthy(a.audio.caption) THEN <<" Caption: ", a.audio.caption>>
            ELSE <<>>)
        \o <<" Response: ">> \o JSONstringify(value)

sendAudioFailed(a) ==
    <<"Failed to send audio to ">> \o formatPhoneNumber(a.to) \o <<": ">>

handleSendAudioStart(a, e) ==
    IF ~sendAudioSchema(a)
    THEN Throw(ZodError(IF ~phoneRegex(a.to)
                        THEN <<"to", ": ", "Invalid phone number format">>
                        ELSE <<"Invalid arguments">>))
    ELSE IF sendAudioInvalid(a) # <<>>
    THEN Throw(UserError(sendAudioInvalid(a)))
    ELSE RethrowUserError(sendAudioFailed(a), sendAudioRequest(a, e))

handleSendAudioEnd(a, f) ==
    LET r == makeApiRequestEnd(f)
    IN  RethrowUserError(
            sendAudioFailed(a),
            IF r.kind = "throw" THEN r ELSE Return(sendAudioText(a, r.value)))

\* the inline tool has no schema.parse of its own and no try/catch
serverSendAudioStart(a, e) ==
    IF sendAudioInvalid(a) # <<>> THEN Throw(UserError(sendAudioInvalid(a)))
    ELSE sendAudioRequest(a, e)

serverSendAudioEnd(a, f) ==
    LET r == makeApiRequestEnd(f)
    IN  IF r.kind = "throw" THEN r ELSE Return(sendAudioText(a, r.value))

\* { progress: 0, total: 1 } before the request
handleSendAudioReportsStart(a, reportProgress) ==
    IF sendAudioSchema(a) /\ sendAudioInvalid(a) = <<>> /\ reportProgress
    THEN <<[progress |-> 0, total |-> 1]>>
    ELSE <<>>

\* { progress: 1, total: 1 } after makeApiRequest has returned
handleSendAudioReportsEnd(a, reportProgress, f) ==
    IF reportProgress /\ makeApiRequestEnd(f).kind = "value"
    THEN <<[progress |-> 1, total |-> 1]>>
    ELSE <<>>

(***************************************************************************)
(* handleValidatePhoneNumber as a tool of the servers                      *)
(***************************************************************************)
validatePhoneNumberText(s) ==
    LET r == handleValidatePhoneNumberResult(s)
    IN  IF r.status = "VALID"
        THEN <<"Phone number is valid! Original: ">> \o r.original
             \o <<" Formatted: ">> \o r.formatted
             \o <<" Country Code: ">> \o r.countryCode
             \o <<" Status: VALID">>
        ELSE <<"Phone number is invalid! Number: ">> \o r.original
             \o <<" Error: Must be 7-19 digits with country code",
                  " Status: INVALID">>

(***************************************************************************)
(* handleCreateInstance: createInstanceSchema is declared, never applied   *)
(***************************************************************************)
createInstanceSchema(a) == a.token # UNDEF /\ StrLen(a.token) >= 1

createInstanceFailed == <<"Failed to create WhatsApp instance: ">>

\* keep a McpError, wrap anything else
RethrowUnlessMcpError(prefix, step) ==
    IF step.kind = "throw" /\ step.err.class # "McpError"
    THEN Throw(McpError(InternalError, prefix \o step.err.message))
    ELSE step

\* with a logger, token.substring throws for a missing token, in the try
\* block and again in the catch block
handleCreateInstanceStart(a, hasLog, e) ==
    IF hasLog /\ a.token = UNDEF
    THEN Throw(TypeError(<<"Cannot read properties of undefined">>))
    ELSE RethrowUnlessMcpError(createInstanceFailed,
            makeApiRequestStart(e, "/api/addInstance",
                [Data(NoPayload) EXCEPT !.hasToken = TRUE, !.token = a.token],
                UNDEF, UNDEF))

handleCreateInstanceEnd(a, f) ==
    LET r == makeApiRequestEnd(f)
    IN  RethrowUnlessMcpError(createInstanceFailed,
            IF r.kind = "throw" THEN r
            ELSE IF r.value.shape = "null"
            THEN Throw(TypeError(<<"Cannot read properties of null">>))
            ELSE Return(<<"WhatsApp Instance Created Successfully! Message: ",
                          Get(r.value, "message"), " Full Response: ">>
                        \o JSONstringify(r.value)))

(***************************************************************************)
(* index.ts: search_hotels_prices_by_dates of the booking server.  Dates   *)
(* are days counted from today; a search result is a flat object keyed by  *)
(* the paths the summary reads.                                            *)
(***************************************************************************)
searchHotelsSchema(a) == a.city # UNDEF

unexpectedSearchError ==
    Throw(UserError(<<"An unexpected error occurred while searching for hotels.">>))

searchHotelsStart(a, cfg) ==
    IF ~Truthy(cfg.apiToken)
    THEN Throw(UserError(<<"API token not configured.">>))
    ELSE IF a.dateFrom < 0
    THEN Throw(UserError(<<"Check-in date cannot be in the past">>))
    ELSE IF a.dateFrom >= a.dateTo
    THEN Throw(UserError(<<"Check-in date must be before check-out date">>))
    ELSE IF a.city = ""
    THEN Throw(UserError(<<"City is required for hotel search">>))
    ELSE [kind    |-> "fetch",
          request |-> [dest     |-> "booking",
                       method   |-> "POST",
                       url      |-> "https://medici-backend.azurewebsites.net",
                       endpoint |-> "/api/hotels/GetInnstantSearchPrice",
                       auth     |-> cfg.apiToken,
                       body     |-> requestBody(UNDEF, UNDEF,
                                       Data([NoPayload EXCEPT !.city = a.city]))]]

hotelSummary(item) ==
    <<Or(ItemGet(item, "items.0.name"), "Unknown Hotel"), " Price: ",
      ItemGet(item, "price.amount"), ItemGet(item, "price.currency"),
      " Board: ", Or(ItemGet(item, "items.0.board"), "N/A"),
      " Category: ", Or(ItemGet(item, "items.0.category"), "N/A"),
      " Confirmation: ", ItemGet(item, "confirmation")>>

\* a failed fetch, a body that is not JSON, and a value that is not an
\* array of results with a price all end in the catch-all UserError
searchHotelsEnd(a, f) ==
    IF f.kind = "failed" THEN unexpectedSearchError
    ELSE IF ~StatusOk(f.response.status)
    THEN Throw(UserError(<<"Hotel search failed: ", ToString(f.response.status),
                           " - ", f.response.statusText>>))
    ELSE LET parsed  == JSONparse(f.response.body)
             results == parsed.value.elems
         IN  IF ~parsed.ok \/ parsed.value.shape # "array"
             THEN unexpectedSearchError
             ELSE IF Len(results) = 0
             THEN Return(<<"No hotels found for ", a.city>>)
             ELSE IF \E i \in 1..Len(results) :
                         ItemGet(results[i], "price.amount") = UNDEF
             THEN unexpectedSearchError
             ELSE Return(<<"Found ", ToString(Len(results)), " hotel options: ">>
                         \o Join([i \in 1..Len(results) |-> hotelSummary(results[i])], <<"\n">>))

(***************************************************************************)
(* index.ts: cancel_room of the booking server.  The answer is an array of *)
(* operations, each a flat object with a name and a result.                *)
(***************************************************************************)
cancelRoomSchema(a) == a.prebookId > 0

cancelRoomRequest(a, cfg, method) ==
    [kind    |-> "fetch",
     request |-> [dest     |-> "booking",
                  method   |-> method,
                  url      |-> "https://medici-backend.azurewebsites.net",
                  endpoint |-> "/api/hotels/CancelRoomActive?prebookId="
                                  \o ToString(a.prebookId),
                  auth     |-> cfg.apiToken,
                  body     |-> requestBody(UNDEF, UNDEF, Data(NoPayload))]]

\* the tool issuing its request as the other booking tools do
cancelRoomStartPost(a, cfg) ==
    IF ~Truthy(cfg.apiToken) THEN Throw(Error(<<"API token not configured">>))
    ELSE cancelRoomRequest(a, cfg, "POST")

cancelRoomStart(a, cfg) ==
    IF ~Truthy(cfg.apiToken) THEN Throw(Error(<<"API token not configured">>))
    ELSE cancelRoomRequest(a, cfg, "DELETE")

\* the catch block logs and re-throws the error as it is
cancelRoomEnd(a, f) ==
    IF f.kind = "failed" THEN Throw(TypeError(<<"fetch failed">>))
    ELSE IF ~StatusOk(f.response.status)
    THEN Throw(Error(<<"API request failed: ", ToString(f.response.status),
                       " - ", f.response.body.raw>>))
    ELSE LET parsed     == JSONparse(f.response.body)
             operations == parsed.value.elems
             successes  == Cardinality({i \in 1..Len(operations) :
                              ItemGet(operations[i], "result") = "Success"})
         IN  IF ~parsed.ok
             THEN Throw(Error(<<"Unexpected token in JSON">>))
             ELSE IF parsed.value.shape # "array"
             THEN Throw(TypeError(<<"operations.filter is not a function">>))
             ELSE Return(<<"Cancellation Process Complete (",
                           ToString(successes), " succeeded, ",
                           ToString(Len(operations) - successes), " failed)">>)

(***************************************************************************)
(* Entry points: what each one does with a tools/call before and after the *)
(* handler runs                                                            *)
(***************************************************************************)
\* "direct" is a handler called as the exported function it is, with a
\* context that holds a progress callback and no logger
WaPulseEntries == {"stdio", "smithery", "fastmcp", "http", "direct"}

Entries == WaPulseEntries \cup {"medici"}

WaPulseTools ==
    {"send_whatsapp_message", "create_whatsapp_group", "load_chat_messages",
     "validate_phone_number", "create_instance", "send_whatsapp_files",
     "send_whatsapp_audio"}
        \cup GroupListTools

\* tools whose input schema offers customToken and customInstanceID
OverridableTools ==
    {"send_whatsapp_message", "create_whatsapp_group", "load_chat_messages",
     "send_whatsapp_files", "send_whatsapp_audio"} \cup GroupListTools

NoConfig ==
    [wapulseToken |-> UNDEF, wapulseInstanceID |-> UNDEF,
     wapulseBaseUrl |-> UNDEF, apiToken |-> UNDEF]

\* the tool's declared schema
declaredSchema(tool, a) ==
    CASE tool = "send_whatsapp_message" -> sendMessageSchema(a)
      [] tool = "create_whatsapp_group" -> createGroupSchema(a)
      [] tool = "load_chat_messages"    -> loadChatSchema(a)
      [] tool = "validate_phone_number" -> TRUE
      [] tool = "create_instance"       -> createInstanceSchema(a)
      [] tool = "send_whatsapp_files"   -> sendFilesSchema(a)
      [] tool = "send_whatsapp_audio"   -> sendAudioSchema(a)
      [] tool \in GroupListTools        -> groupListSchema(tool, a)
      [] tool = "cancel_room"           -> cancelRoomSchema(a)
      [] OTHER                          -> searchHotelsSchema(a)

\* McpServer.tool and FastMCP.addTool check the arguments against the
\* registered shape before the callback runs; the low-level Server of the
\* stdio entry point does not
frameworkAccepts(en, tool, a) ==
    en \in {"stdio", "direct"} \/ declaredSchema(tool, a)

\* the argument object the entry point hands to the handler
handlerArgs(en, tool, a, cfg) ==
    IF en = "stdio"
    THEN IF tool \in OverridableTools
         THEN [a EXCEPT !.customToken = cfg.wapulseToken,
                        !.customInstanceID = cfg.wapulseInstanceID]
         ELSE IF tool = "create_instance"
         THEN [BlankArgs EXCEPT !.token = cfg.wapulseToken]
         ELSE a
    ELSE IF en = "smithery" /\ tool \in OverridableTools
    THEN [a EXCEPT !.customToken = Nullish(a.customToken, cfg.wapulseToken),
                   !.customInstanceID =
                       Nullish(a.customInstanceID, cfg.wapulseInstanceID)]
    ELSE a

\* whether the handler gets a context with a logger
hasLog(en, tool) ==
    en # "direct" /\ ~(en = "stdio" /\ tool = "create_instance")

IsFastMCP(en) == en \in {"fastmcp", "http"}

\* the call up to its first awaited fetch
toolStart(en, tool, a, cfg, e, gc) ==
    LET args == handlerArgs(en, tool, a, cfg)
    IN  IF en = "stdio" /\ dispatch(tool).handler = "none"
        THEN Throw(Error(<<"Unknown tool: ", tool>>))
        ELSE IF ~frameworkAccepts(en, tool, a)
        THEN Throw(McpError(InvalidParams, <<"Invalid arguments for tool ", tool>>))
        ELSE CASE tool = "send_whatsapp_message" ->
                    IF IsFastMCP(en) THEN serverSendMessageStart(args, e, gc)
                    ELSE handleSendMessageStart(args, e)
               [] tool = "create_whatsapp_group" ->
                    handleCreateGroupStart(args, e)
               [] tool = "load_chat_messages" ->
                    IF IsFastMCP(en) THEN serverLoadChatStart(args, e)
                    ELSE handleLoadChatAllMessagesStart(args, e)
               [] tool = "validate_phone_number" ->
                    Return(validatePhoneNumberText(args.phoneNumber))
               [] tool = "create_instance" ->
                    handleCreateInstanceStart(args, hasLog(en, tool), e)
               [] tool = "send_whatsapp_files" ->
                    IF IsFastMCP(en) THEN serverSendFilesStart(args, e)
                    ELSE handleSendFilesStart(args, e)
               [] tool = "send_whatsapp_audio" ->
                    IF IsFastMCP(en) THEN serverSendAudioStart(args, e)
                    ELSE handleSendAudioStart(args, e)
               [] tool \in GroupListTools ->
                    handleGroupListStart(tool, args, e)
               [] tool = "cancel_room" -> cancelRoomStart(args, cfg)
               [] OTHER -> searchHotelsStart(args, cfg)

\* the rest of the call once the fetch has settled
toolEnd(en, tool, a, cfg, f) ==
    LET args == handlerArgs(en, tool, a, cfg)
    IN  CASE tool = "send_whatsapp_message" ->
                IF IsFastMCP(en) THEN serverSendMessageEnd(args, f)
                ELSE handleSendMessageEnd(args, f)
          [] tool = "create_whatsapp_group" ->
                handleCreateGroupEnd(args, hasLog(en, tool), f)
          [] tool = "load_chat_messages" ->
                IF IsFastMCP(en) THEN serverLoadChatEnd(args, f)
                ELSE handleLoadChatAllMessagesEnd(args, f)
          [] tool = "create_instance" -> handleCreateInstanceEnd(args, f)
          [] tool = "send_whatsapp_files" ->
                IF IsFastMCP(en) THEN serverSendFilesEnd(args, f)
                ELSE handleSendFilesEnd(args, f)
          [] tool = "send_whatsapp_audio" ->
                IF IsFastMCP(en) THEN serverSendAudioEnd(args, f)
                ELSE handleSendAudioEnd(args, f)
          [] tool \in GroupListTools -> handleGroupListEnd(tool, args, f)
          [] tool = "cancel_room" -> cancelRoomEnd(args, f)
          [] OTHER -> searchHotelsEnd(args, f)

\* whether the handler's context holds reportProgress: FastMCP passes one
\* to execute; the adaptContext of the stdio and Smithery servers does not
hasReportProgress(en) == IsFastMCP(en) \/ en = "direct"

\* a report and the number of upstream requests issued before it
Stamp(report, issued) ==
    [progress |-> report.progress, total |-> report.total, issued |-> issued]

\* the progress reports of the call up to its first awaited fetch
toolReportsStart(en, tool, a) ==
    IF ~frameworkAccepts(en, tool, a) THEN <<>>
    ELSE CASE tool = "send_whatsapp_files" ->
                handleSendFilesReportsStart(a, hasReportProgress(en))
           [] tool = "send_whatsapp_audio" ->
                handleSendAudioReportsStart(a, hasReportProgress(en))
           [] OTHER -> <<>>

\* the progress reports once the fetch has settled
toolReportsEnd(en, tool, a, f) ==
    CASE tool = "send_whatsapp_files" ->
            handleSendFilesReportsEnd(a, hasReportProgress(en), f)
      [] tool = "send_whatsapp_audio" ->
            handleSendAudioReportsEnd(a, hasReportProgress(en), f)
      [] OTHER -> <<>>

\* the downloads the rest of the call makes
toolDownloads(en, tool, a, cfg, f) ==
    LET args == handlerArgs(en, tool, a, cfg)
    IN  IF tool # "load_chat_messages" THEN <<>>
        ELSE IF IsFastMCP(en) THEN serverLoadChatDownloads(args, f)
        ELSE handleLoadChatAllMessagesDownloads(args, f)

NoResult ==
    [outcome |-> "none", isError |-> FALSE, text |-> <<>>, err |-> NoError]

\* the stdio CallTool handler without its try/catch: the error leaves the
\* handler
callResultUncaught(en, step) ==
    IF step.kind = "return"
    THEN [outcome |-> "ok", isError |-> FALSE, text |-> step.text,
          err |-> NoError]
    ELSE [outcome |-> IF en = "stdio" THEN "thrown" ELSE "error",
          isError |-> en # "stdio",
          text |-> IF en = "stdio" THEN <<>> ELSE step.err.message,
          err |-> step.err]

\* what the caller gets: the stdio CallTool handler catches every error and
\* answers 'Error: <message>'; the frameworks answer with the message
callResult(en, step) ==
    IF step.kind = "return"
    THEN [outcome |-> "ok", isError |-> FALSE, text |-> step.text,
          err |-> NoError]
    ELSE [outcome |-> "error", isError |-> TRUE,
          text |-> IF en = "stdio" THEN <<"Error: ">> \o step.err.message
                   ELSE step.err.message,
          err |-> step.err]

(***************************************************************************)
(* Inputs                                                                  *)
(***************************************************************************)
Envs ==
    [WAPULSE_TOKEN       : {UNDEF, "", "env-token"},
     WAPULSE_INSTANCE_ID : {UNDEF, "env-instance"},
     WAPULSE_BASE_URL    : {UNDEF}]

SessionConfigs ==
    [wapulseToken      : {"", "session-token"},
     wapulseInstanceID : {"", "session-instance"},
     wapulseBaseUrl    : {DEFAULT_CONFIG.baseUrl},
     apiToken          : {UNDEF}]

BookingConfigs ==
    [wapulseToken : {UNDEF}, wapulseInstanceID : {UNDEF},
     wapulseBaseUrl : {UNDEF}, apiToken : {"", "booking-token"}]

Queries ==
    {[wapulseToken |-> UNDEF, wapulseInstanceID |-> UNDEF],
     [wapulseToken |-> "url-token", wapulseInstanceID |-> "url-instance"],
     [wapulseToken |-> "url-token", wapulseInstanceID |-> UNDEF]}

UnitedStates == Pattern2

Plus(s) == <<"+">> \o s

Overrides ==
    {<<UNDEF, UNDEF>>, <<"caller-token", "caller-instance">>,
     <<"caller-token", UNDEF>>, <<"", UNDEF>>}

WithOverride(a, o) == [a EXCEPT !.customToken = o[1], !.customInstanceID = o[2]]

SendMessageArgs ==
    {WithOverride([BlankArgs EXCEPT !.to = to, !.message = m], o) :
        to \in {Israel, Plus(Israel), SubSeq(Israel, 1, 5)},
        m \in {"hello", ""}, o \in Overrides}
    \cup {[BlankArgs EXCEPT !.to = Israel, !.message = "hello", !.type = "video"]}

\* a list of n valid numbers, the two examples in turn
Crowd(n) == [i \in 1..n |-> IF i % 2 = 1 THEN Israel ELSE UnitedStates]

CreateGroupArgs ==
    {WithOverride([BlankArgs EXCEPT !.name = n, !.participants = ps], o) :
        n \in {"Team", "", LongName},
        ps \in {<<>>, <<Israel>>, <<Israel, UnitedStates>>,
                <<Israel, Plus(UnitedStates)>>},
        o \in {<<UNDEF, UNDEF>>, <<"caller-token", "caller-instance">>}}
    \cup {[BlankArgs EXCEPT !.name = "Team", !.participants = Crowd(n)] :
             n \in {256, 257}}

GroupListArgs(tool) ==
    {[BlankArgs EXCEPT !.id = id, ![groupListTool(tool).field] = list] :
        id \in {"120363@g.us", ""},
        list \in {<<>>, <<Israel>>, <<UnitedStates, Israel>>,
                  <<Israel, Plus(UnitedStates)>>,
                  Crowd(groupListTool(tool).maxItems),
                  Crowd(groupListTool(tool).maxItems + 1)}}

SendFilesArgs ==
    LET Doc(n) == [file |-> <<"data:", "application/pdf;base64,AAAA">>,
                   filename |-> "doc" \o ToString(n) \o ".pdf",
                   caption |-> UNDEF]
        Raw    == [file |-> <<"AAAA">>, filename |-> "raw.bin",
                   caption |-> UNDEF]
    IN  {[BlankArgs EXCEPT !.to = to, !.files = files] :
            to \in {Israel, Plus(Israel)},
            files \in {<<>>, <<Doc(1)>>, <<Doc(2), Doc(1)>>, <<Doc(1), Raw>>,
                       [i \in 1..10 |-> Doc(i)], [i \in 1..11 |-> Doc(i)]}}

SendAudioArgs ==
    LET Mpeg == <<"data:audio/", "mpeg;base64,AAAA">>
        Png  == <<"data:", "image/png;base64,AAAA">>
        Raw  == <<"AAAA">>
    IN  {[BlankArgs EXCEPT !.to = to, !.audio = audio] :
            to \in {Israel, Plus(Israel)},
            audio \in {NoAudio} \cup
                {[given |-> TRUE, file |-> file, filename |-> filename,
                  caption |-> UNDEF, isVoiceNote |-> voice] :
                    file \in {Mpeg, Png, Raw},
                    filename \in {<<"v", ".", "m", "p", "3">>,
                                  <<"V", ".", "M", "P", "3">>,
                                  <<"a", ".", "m", "p", "4">>,
                                  <<"m", "p", "3">>,
                                  <<"s", ".", "o", "p", "u", "s">>},
                    voice \in {UNDEF, "true", "false"}}}

LoadChatArgs ==
    {WithOverride([BlankArgs EXCEPT !.id = "972512345678@c.us", !.type = t], o) :
        t \in {"user", UNDEF},
        o \in {<<UNDEF, UNDEF>>, <<"caller-token", "caller-instance">>}}

ValidatePhoneArgs ==
    {[BlankArgs EXCEPT !.phoneNumber = p] : p \in {Israel, Plus(Israel)}}

CreateInstanceArgs ==
    {[BlankArgs EXCEPT !.token = t] : t \in {UNDEF, "", "user-token"}}

SearchHotelsArgs ==
    {[BlankArgs EXCEPT !.city = c, !.dateFrom = d, !.dateTo = 2] :
        c \in {UNDEF, "", "Paris"}, d \in {-1, 1, 3}}

ToolArgs(tool) ==
    CASE tool = "send_whatsapp_message" -> SendMessageArgs
      [] tool = "create_whatsapp_group" -> CreateGroupArgs
      [] tool = "load_chat_messages"    -> LoadChatArgs
      [] tool = "validate_phone_number" -> ValidatePhoneArgs
      [] tool = "create_instance"       -> CreateInstanceArgs
      [] tool = "send_whatsapp_files"   -> SendFilesArgs
      [] tool = "send_whatsapp_audio"   -> SendAudioArgs
      [] tool \in GroupListTools        -> GroupListArgs(tool)
      [] tool = "cancel_room"           ->
            {[BlankArgs EXCEPT !.prebookId = n] : n \in {0, 7}}
      [] tool \in UnlistedTools         ->
            {BlankArgs, [BlankArgs EXCEPT !.to = Israel]}
      [] OTHER                          -> SearchHotelsArgs

EntryTools(en) ==
    IF en = "medici" THEN {"search_hotels_prices_by_dates", "cancel_room"}
    ELSE WaPulseTools

\* the names a client may put in a tools/call request: the frameworks answer
\* a name that is not registered themselves; the stdio server's own switch
\* gets every name
RequestedTools(en) ==
    IF en = "stdio" THEN EntryTools(en) \cup UnlistedTools ELSE EntryTools(en)

ImageMessage ==
    <<Pair("type", "image"), Pair("mediaUrl", "https://media.example/1.jpg"),
      Pair("from", "972512345678")>>

ChatMessage == <<Pair("type", "chat"), Pair("body", "hi")>>

Hotel ==
    <<Pair("items.0.name", "Hilton"), Pair("price.amount", "120"),
      Pair("price.currency", "USD"), Pair("items.0.board", "BB"),
      Pair("items.0.category", "standard"), Pair("confirmation", "immediate"),
      Pair("code", "X1")>>

Bodies ==
    {EmptyBody, TextBody("Bad Gateway"), NullBody,
     JsonBody(JsonObject(<<Member("success", "true"), Member("message", "sent")>>)),
     JsonBody(JsonObject(<<Member("message", "first"), Member("id", "7"),
                           Member("message", "second")>>)),
     JsonBody(JsonObject(<<Member("error", "Invalid token")>>)),
     JsonBody(JsonObject(<<Member("error", "Invalid token"),
                           Member("details", "expired")>>)),
     JsonBody(JsonObject(<<Member("error", ""), Member("code", "17")>>)),
     JsonBody(JsonObject(<<Member("success", "true"),
                           ListMember("messages", <<ImageMessage, ChatMessage,
                                                    ImageMessage>>)>>)),
     JsonBody(JsonArray(<<>>)),
     JsonBody(JsonArray(<<Hotel>>))}

StatusTexts == {<<200, "OK">>, <<401, "Unauthorized">>, <<500, "Internal Server Error">>}

Responses ==
    {[status |-> st[1], statusText |-> st[2], body |-> b] :
        st \in StatusTexts, b \in Bodies}

NoCall == [tool |-> "none", args |-> BlankArgs]

(***************************************************************************)
(* The servers                                                             *)
(***************************************************************************)
Idle ==
    /\ call = NoCall
    /\ sent = <<>>
    /\ fetched = NotFetched
    /\ result = NoResult
    /\ reported = <<>>

Init ==
    /\ phoneNumber = <<>>
    /\ phoneResult = NoPhoneResult
    /\ RateIdle
    /\ DispatchIdle
    /\ logged = <<>>
    /\ env \in Envs
    /\ globalConfig = EmptyGlobalConfig
    /\ entry \in Entries
    /\ config = NoConfig
    /\ pc = IF entry = "direct" THEN "idle" ELSE "boot"
    /\ Idle

\* the stdio entry point without its two configuration checks
StartStdioUnchecked ==
    LET cfg == [wapulseToken      |-> Or(env.WAPULSE_TOKEN, ""),
                wapulseInstanceID |-> Or(env.WAPULSE_INSTANCE_ID, ""),
                wapulseBaseUrl    |-> Or(env.WAPULSE_BASE_URL,
                                         "https://wapulseserver.com:3003"),
                apiToken          |-> UNDEF]
    IN  /\ entry = "stdio" /\ pc = "boot"
        /\ config' = cfg
        /\ pc' = "idle"
        /\ env' = [env EXCEPT !.WAPULSE_BASE_URL = cfg.wapulseBaseUrl]
        /\ UNCHANGED <<phoneVars, rateVars, toolVars, reported, globalConfig, entry, call, sent, fetched, result>>

\* stdio-index.ts, module level: read the environment, exit without a
\* token or an instance ID, export the base URL
StartStdio ==
    LET cfg == [wapulseToken      |-> Or(env.WAPULSE_TOKEN, ""),
                wapulseInstanceID |-> Or(env.WAPULSE_INSTANCE_ID, ""),
                wapulseBaseUrl    |-> Or(env.WAPULSE_BASE_URL,
                                         "https://wapulseserver.com:3003"),
                apiToken          |-> UNDEF]
    IN  /\ entry = "stdio" /\ pc = "boot"
        /\ config' = cfg
        /\ IF ~Truthy(cfg.wapulseToken) \/ ~Truthy(cfg.wapulseInstanceID)
           THEN pc' = "exited" /\ UNCHANGED env
           ELSE /\ pc' = "idle"
                /\ env' = [env EXCEPT !.WAPULSE_BASE_URL = cfg.wapulseBaseUrl]
        /\ UNCHANGED <<phoneVars, rateVars, toolVars, reported, globalConfig, entry, call, sent, fetched, result>>

\* smithery-index.ts, the default export: the session's configuration
StartSmithery ==
    \E cfg \in SessionConfigs :
        /\ entry = "smithery" /\ pc = "boot"
        /\ config' = cfg
        /\ IF ~Truthy(cfg.wapulseToken) \/ ~Truthy(cfg.wapulseInstanceID)
           THEN pc' = "failed" /\ UNCHANGED env
           ELSE /\ pc' = "idle"
                /\ env' = [env EXCEPT !.WAPULSE_BASE_URL = cfg.wapulseBaseUrl]
        /\ UNCHANGED <<phoneVars, rateVars, toolVars, reported, globalConfig, entry, call, sent, fetched, result>>

\* server.ts, module level, alone or imported by the HTTP front
StartFastMCP ==
    /\ IsFastMCP(entry) /\ pc = "boot"
    /\ globalConfig' = parseConfigFromEnv(globalConfig, env)
    /\ pc' = "idle"
    /\ UNCHANGED <<phoneVars, rateVars, toolVars, reported, env, entry, config, call, sent, fetched, result>>

\* index.ts, the default export of the booking server
StartMedici ==
    \E cfg \in BookingConfigs :
        /\ entry = "medici" /\ pc = "boot"
        /\ config' = cfg
        /\ pc' = "idle"
        /\ UNCHANGED <<phoneVars, rateVars, toolVars, reported, env, globalConfig, entry, call, sent,
                       fetched, result>>

\* the createServer callback of the HTTP front, on any incoming request
HttpRequest ==
    \E query \in Queries :
        /\ entry = "http" /\ pc \in {"idle", "fetch", "done"}
        /\ globalConfig' = parseConfigFromUrl(globalConfig, query)
        /\ UNCHANGED <<phoneVars, rateVars, toolVars, reported, env, entry, config, pc, call, sent, fetched,
                       result>>

\* a tools/call request, up to the handler's awaited fetch
CallTool ==
    \E tool \in RequestedTools(entry) : \E a \in ToolArgs(tool) :
        LET step == toolStart(entry, tool, a, config, env, globalConfig)
        IN  /\ pc = "idle"
            /\ call' = [tool |-> tool, args |-> a]
            /\ IF step.kind = "fetch"
               THEN /\ sent' = <<step.request>>
                    /\ pc' = "fetch"
                    /\ UNCHANGED result
               ELSE /\ result' = callResult(entry, step)
                    /\ pc' = "done"
                    /\ UNCHANGED sent
            /\ reported' = [i \in 1..Len(toolReportsStart(entry, tool, a)) |->
                               Stamp(toolReportsStart(entry, tool, a)[i],
                                     Len(sent))]
            /\ UNCHANGED <<phoneVars, rateVars, toolVars, env, globalConfig, entry,
                           config, fetched>>

\* the fetch has settled: the rest of makeApiRequest and of the handler
Settle(f) ==
    /\ pc = "fetch"
    /\ fetched' = f
    /\ sent' = sent \o toolDownloads(entry, call.tool, call.args, config, f)
    /\ result' = callResult(entry, toolEnd(entry, call.tool, call.args, config, f))
    /\ pc' = "done"
    /\ reported' =
          reported \o
              [i \in 1..Len(toolReportsEnd(entry, call.tool, call.args, f)) |->
                  Stamp(toolReportsEnd(entry, call.tool, call.args, f)[i],
                        Len(sent))]
    /\ UNCHANGED <<phoneVars, rateVars, toolVars, env, globalConfig, entry, config, call>>

FetchResponds == \E response \in Responses : Settle(Fetched(response))

FetchFails == Settle(FetchFailed)

\* the answer has gone out; the server waits for the next call
Finish ==
    /\ pc = "done"
    /\ pc' = "idle"
    /\ call' = NoCall
    /\ sent' = <<>>
    /\ fetched' = NotFetched
    /\ result' = NoResult
    /\ reported' = <<>>
    /\ UNCHANGED <<phoneVars, rateVars, toolVars, env, globalConfig, entry, config>>

Next ==
    \/ StartStdio
    \/ StartSmithery
    \/ StartFastMCP
    \/ StartMedici
    \/ HttpRequest
    \/ CallTool
    \/ FetchResponds
    \/ FetchFails
    \/ Finish

Spec == Init /\ [][Next]_vars

(***************************************************************************)
(* Specification of the request helper alone: makeApiRequest applied to    *)
(* every enumerated environment, data object and pair of overrides         *)
(***************************************************************************)
DataInputs ==
    {[hasToken |-> ht, token |-> t, hasInstanceID |-> hi, instanceID |-> i,
      payload |-> NoPayload] :
        ht \in BOOLEAN, t \in {UNDEF, "", "user-token"},
        hi \in BOOLEAN, i \in {UNDEF, "user-instance"}}

\* without the property there is no value either
OwnData ==
    {d \in DataInputs : /\ (~d.hasToken => d.token = UNDEF)
                        /\ (~d.hasInstanceID => d.instanceID = UNDEF)}

RequestOverrides == Overrides \cup {<<UNDEF, "caller-instance">>}

InitRequest ==
    /\ phoneNumber = <<>>
    /\ phoneResult = NoPhoneResult
    /\ RateIdle
    /\ DispatchIdle
    /\ logged = <<>>
    /\ env \in Envs
    /\ globalConfig = EmptyGlobalConfig
    /\ entry = "none"
    /\ config = NoConfig
    /\ pc = "idle"
    /\ call \in {[tool |-> "makeApiRequest",
                  args |-> [endpoint |-> "/api/sendMessage", data |-> d,
                            customToken |-> o[1], customInstanceID |-> o[2]]] :
                    d \in OwnData, o \in RequestOverrides}
    /\ sent = <<>>
    /\ fetched = NotFetched
    /\ result = NoResult
    /\ reported = <<>>

makeApiRequestCalled ==
    LET step == makeApiRequestStart(env, call.args.endpoint, call.args.data,
                                    call.args.customToken,
                                    call.args.customInstanceID)
    IN  /\ pc = "idle"
        /\ IF step.kind = "fetch"
           THEN sent' = <<step.request>> /\ pc' = "fetch" /\ UNCHANGED result
           ELSE /\ result' = callResult("none", step)
                /\ pc' = "done"
                /\ UNCHANGED sent
        /\ UNCHANGED <<phoneVars, rateVars, toolVars, reported, env, globalConfig, entry, config, call, fetched>>

makeApiRequestSettled ==
    \E f \in {FetchFailed} \cup {Fetched(r) : r \in Responses} :
        LET r == makeApiRequestEnd(f)
        IN  /\ pc = "fetch"
            /\ fetched' = f
            /\ result' = callResult("none",
                            IF r.kind = "throw" THEN r
                            ELSE Return(JSONstringify(r.value)))
            /\ pc' = "done"
            /\ UNCHANGED <<phoneVars, rateVars, toolVars, reported, env, globalConfig, entry, config, call, sent>>

NextRequest == makeApiRequestCalled \/ makeApiRequestSettled

SpecRequest == InitRequest /\ [][NextRequest]_vars

(***************************************************************************)
(* Specification of the rate limiter: checkRateLimit called for            *)
(* authenticated users at non-decreasing instants                          *)
(***************************************************************************)
RateUsers ==
    {[id |-> "demo-user",
      rateLimit |-> <<[requestsPerMinute |-> 1, requestsPerHour |-> 2]>>],
     [id |-> "admin-user",
      rateLimit |-> <<[requestsPerMinute |-> 2, requestsPerHour |-> 3]>>],
     [id |-> "guest", rateLimit |-> <<>>]}

\* milliseconds since the epoch
Instants == {60000, 90000, 3600000, 3660000, 3720000, 3780000}

InitRate ==
    /\ phoneNumber = <<>>
    /\ phoneResult = NoPhoneResult
    /\ RateIdle
    /\ DispatchIdle
    /\ logged = <<>>
    /\ env = [WAPULSE_TOKEN |-> UNDEF, WAPULSE_INSTANCE_ID |-> UNDEF,
              WAPULSE_BASE_URL |-> UNDEF]
    /\ globalConfig = EmptyGlobalConfig
    /\ entry = "none"
    /\ config = NoConfig
    /\ pc = "idle"
    /\ Idle

RateLimitedRequest ==
    \E user \in RateUsers : \E t \in Instants :
        LET checked == checkRateLimit(rateLimitMap, user.id, user.rateLimit, t)
        IN  /\ Len(rateCalls) < MaxCalls
            /\ t >= now
            /\ now' = t
            /\ rateLimitMap' = checked.map
            /\ rateCalls' = Append(rateCalls,
                                   [userId |-> user.id, time |-> t,
                                    accepted |-> checked.err = NoError])
            /\ UNCHANGED <<phoneVars, toolVars, serverVars>>

NextRate == RateLimitedRequest

SpecRate == InitRate /\ [][NextRate]_vars

(***************************************************************************)
(* Specification of the stdio server's request handlers as a dispatcher:   *)
(* a client lists the tools and calls tools by name                        *)
(***************************************************************************)
\* names a client may put in a CallTool request: every listed name, a tool
\* of another server of the repository and a name no server knows
RequestedNames ==
    {allTools[i] : i \in 1..Len(allTools)}
        \cup {"cancel_room", "send_whatsapp_video"}

InitDispatch ==
    /\ phoneNumber = <<>>
    /\ phoneResult = NoPhoneResult
    /\ RateIdle
    /\ DispatchIdle
    /\ logged = <<>>
    /\ env = [WAPULSE_TOKEN |-> "tok", WAPULSE_INSTANCE_ID |-> "inst",
              WAPULSE_BASE_URL |-> UNDEF]
    /\ globalConfig = EmptyGlobalConfig
    /\ entry = "stdio"
    /\ config = NoConfig
    /\ pc = "idle"
    /\ Idle

ListTools ==
    /\ listed' = allTools
    /\ UNCHANGED <<phoneVars, rateVars, serverVars, dispatched, logged>>

CallToolSwitched ==
    \E name \in RequestedNames :
        /\ Len(dispatched) < MaxDispatch
        /\ dispatched' = Append(dispatched, dispatch(name))
        /\ UNCHANGED <<phoneVars, rateVars, serverVars, listed, logged>>

NextDispatch ==
    \/ ListTools
    \/ CallToolSwitched

SpecDispatch == InitDispatch /\ [][NextDispatch]_vars

(***************************************************************************)
(* The group tools as the Smithery and FastMCP servers register them.  Both *)
(* loops build one parameter schema from the tool's name and check the     *)
(* arguments against it before the handler runs.                           *)
(***************************************************************************)
GroupIdTools ==
    {"leave_whatsapp_group", "get_group_invite_link",
     "change_group_invite_code", "get_group_requests"}

\* the tools of the groupTools.forEach loops (create_whatsapp_group has a
\* schema of its own)
GroupTools == GroupListTools \cup GroupIdTools \cup {"get_all_groups"}

\* name.includes(part) for the names of GroupTools
includes(name, part) ==
    CASE part = "participants" ->
            name \in {"add_group_participants", "remove_group_participants",
                      "promote_group_participants", "demote_group_participants"}
      [] part = "request" ->
            name \in {"get_group_requests", "reject_group_request",
                      "approve_group_request"}
      [] part = "promote" -> name = "promote_group_participants"
      [] part = "demote"  -> name = "demote_group_participants"
      [] OTHER -> FALSE

\* the parameters object of server.tool / server.addTool
registeredGroupSchema(name, a) ==
    LET isParticipantTool ==
            includes(name, "participants") \/ includes(name, "request")
        fieldName == IF includes(name, "request") THEN "numbers"
                     ELSE "participants"
        maxItems  == IF \/ includes(name, "promote")
                        \/ includes(name, "demote")
                        \/ includes(name, "request")
                     THEN 20 ELSE 50
    IN  /\ a.id # UNDEF /\ StrLen(a.id) >= 1
        /\ isParticipantTool =>
              /\ Len(a[fieldName]) >= 1 /\ Len(a[fieldName]) <= maxItems
              /\ \A i \in 1..Len(a[fieldName]) : phoneRegex(a[fieldName][i])

\* the tool object's inputSchema (JSON schema)
groupInputSchema(name, a) ==
    IF name \in GroupListTools
    THEN LET list == a[groupListTool(name).field]
         IN  /\ a.id # UNDEF
             /\ Len(list) >= 1 /\ Len(list) <= groupListTool(name).maxItems
             /\ \A i \in 1..Len(list) : phoneRegex(list[i])
    ELSE IF name \in GroupIdTools THEN a.id # UNDEF
    ELSE TRUE

\* the zod schema the handler parses its arguments with
groupHandlerSchema(name, a) ==
    IF name \in GroupListTools THEN groupListSchema(name, a)
    ELSE IF name \in GroupIdTools THEN a.id # UNDEF /\ StrLen(a.id) >= 1
    ELSE TRUE

\* the framework's answer before the callback runs
registeredParse(name, a) ==
    IF registeredGroupSchema(name, a)
    THEN [kind |-> "ok"]
    ELSE Throw(McpError(InvalidParams, <<"Invalid arguments for tool ", name>>))

GroupToolArgs(name) ==
    {[BlankArgs EXCEPT !.id = id, !.participants = ps, !.numbers = ns] :
        id \in {UNDEF, "", "120363@g.us"},
        ps \in {<<>>, <<Israel>>, Crowd(21)},
        ns \in {<<>>, <<Israel>>}}

InitRegister ==
    /\ phoneNumber = <<>>
    /\ phoneResult = NoPhoneResult
    /\ RateIdle
    /\ DispatchIdle
    /\ logged = <<>>
    /\ env = [WAPULSE_TOKEN |-> "tok", WAPULSE_INSTANCE_ID |-> "inst",
              WAPULSE_BASE_URL |-> UNDEF]
    /\ globalConfig = EmptyGlobalConfig
    /\ entry \in {"smithery", "fastmcp"}
    /\ config = NoConfig
    /\ pc = "idle"
    /\ Idle

\* a tools/call request for a group tool reaches the registered schema
RegisteredParse ==
    \E name \in GroupTools : \E a \in GroupToolArgs(name) :
        LET step == registeredParse(name, a)
        IN  /\ pc = "idle"
            /\ call' = [tool |-> name, args |-> a]
            /\ result' = IF step.kind = "throw" THEN callResult(entry, step)
                         ELSE NoResult
            /\ pc' = IF step.kind = "throw" THEN "rejected" ELSE "parsed"
            /\ UNCHANGED <<phoneVars, rateVars, toolVars, reported, env, globalConfig,
                           entry, config, sent, fetched>>

NextRegister == RegisteredParse

SpecRegister == InitRegister /\ [][NextRegister]_vars

(***************************************************************************)
(* The log calls of the instance handlers (tools/instance).  Each handler  *)
(* logs one line before the request and one after it, or one in its catch  *)
(* block; a token is a sequence of characters here.                        *)
(***************************************************************************)
InstanceTools ==
    {"create_instance", "get_qr_code", "start_instance", "stop_instance",
     "delete_instance"}

\* token.substring(0, 8) + "..."
loggedToken(token) == Slice(token, 0, 8) \o <<".", ".", ".">>

instanceLogMessages(tool) ==
    CASE tool = "create_instance" ->
            [before |-> "Creating new WhatsApp instance",
             after  |-> "Instance created successfully",
             failed |-> "Failed to create instance"]
      [] tool = "get_qr_code" ->
            [before |-> "Retrieving QR code for WhatsApp Web connection",
             after  |-> "QR code retrieved successfully",
             failed |-> "Failed to retrieve QR code"]
      [] tool = "start_instance" ->
            [before |-> "Starting WhatsApp instance",
             after  |-> "Instance started successfully",
             failed |-> "Failed to start instance"]
      [] tool = "stop_instance" ->
            [before |-> "Stopping WhatsApp instance",
             after  |-> "Instance stopped successfully",
             failed |-> "Failed to stop instance"]
      [] OTHER ->
            [before |-> "Deleting WhatsApp instance",
             after  |-> "Instance deleted successfully",
             failed |-> "Failed to delete instance"]

\* the log calls of one run of a handler that was given a logger: the level,
\* the message and the token property of the meta object (<<>>: none)
instanceLog(tool, token, requestFailed) ==
    LET m == instanceLogMessages(tool)
    IN  <<[level |-> "info", message |-> m.before,
           token |-> loggedToken(token)]>>
            \o (IF requestFailed
                THEN <<[level |-> "error", message |-> m.failed,
                        token |-> loggedToken(token)]>>
                ELSE <<[level |-> "info", message |-> m.after,
                        token |-> <<>>]>>)

TokenPattern ==
    <<"w", "a", "p", "-", "k", "e", "y", "-", "1", "2", "3", "4">>

\* tokens of 1 to MaxTokenLen characters
TokenInputs == {Repeat(TokenPattern, n) : n \in 1..MaxTokenLen}

InitLog ==
    /\ phoneNumber = <<>>
    /\ phoneResult = NoPhoneResult
    /\ RateIdle
    /\ DispatchIdle
    /\ logged = <<>>
    /\ env = [WAPULSE_TOKEN |-> UNDEF, WAPULSE_INSTANCE_ID |-> UNDEF,
              WAPULSE_BASE_URL |-> UNDEF]
    /\ globalConfig = EmptyGlobalConfig
    /\ entry = "smithery"
    /\ config = NoConfig
    /\ pc = "idle"
    /\ call \in {[tool |-> tool, args |-> [BlankArgs EXCEPT !.token = token]] :
                    tool \in InstanceTools, token \in TokenInputs}
    /\ sent = <<>>
    /\ fetched = NotFetched
    /\ result = NoResult
    /\ reported = <<>>

\* the handler runs with a logger; its request succeeds or fails
InstanceHandlerLogs ==
    \E requestFailed \in BOOLEAN :
        /\ pc = "idle"
        /\ logged' = instanceLog(call.tool, call.args.token, requestFailed)
        /\ pc' = "done"
        /\ UNCHANGED <<phoneVars, rateVars, listed, dispatched, env,
                       globalConfig, entry, config, call, sent, fetched, result,
                       reported>>

NextLog == InstanceHandlerLogs

SpecLog == InitLog /\ [][NextLog]_vars

(***************************************************************************)
(* Specification of the validate_phone_number tool                         *)
(***************************************************************************)
InitPhone ==
    /\ phoneNumber \in PhoneInputs
    /\ phoneResult = NoPhoneResult
    /\ RateIdle
    /\ DispatchIdle
    /\ logged = <<>>
    /\ env = [WAPULSE_TOKEN |-> UNDEF, WAPULSE_INSTANCE_ID |-> UNDEF,
              WAPULSE_BASE_URL |-> UNDEF]
    /\ globalConfig = EmptyGlobalConfig
    /\ entry = "none"
    /\ config = NoConfig
    /\ pc = "idle"
    /\ Idle

handleValidatePhoneNumber ==
    /\ phoneResult.status = "none"
    /\ phoneResult' = handleValidatePhoneNumberResult(phoneNumber)
    /\ UNCHANGED <<phoneNumber, rateVars, toolVars, serverVars>>

NextPhone == handleValidatePhoneNumber

SpecPhone == InitPhone /\ [][NextPhone]_vars

(***************************************************************************)
(* C1: validatePhoneNumber(s) is true exactly when s consists only of      *)
(* decimal digits and its length is between 7 and 19 inclusive.            *)
(***************************************************************************)
C1_ValidIffDigits7to19 ==
    phoneResult.status # "none" =>
        ((phoneResult.status = "VALID") <=>
            (/\ IsDigits(phoneNumber)
             /\ Len(phoneNumber) >= 7
             /\ Len(phoneNumber) <= 19))

C1_Witness ==
    /\ phoneResult.status = "VALID"
    /\ Len(phoneNumber) = 19

(***************************************************************************)
(* C4: the validate_phone_number handler, given "972512345678", answers    *)
(* VALID with formatted value "+972 512 345 678" and country code "972";   *)
(* and for every valid number of ten or more digits the echoed country     *)
(* code is the prefix that formatPhoneNumber prints after the '+'.         *)
(***************************************************************************)
\* what a formatted number shows between the '+' and the first space
PrintedPrefix(formatted) ==
    LET spaces == {i \in 1..Len(formatted) : formatted[i] = " "}
        first  == CHOOSE i \in spaces : \A j \in spaces : i <= j
    IN  IF spaces = {} THEN <<>> ELSE SubSeq(formatted, 2, first - 1)

C4_CountryCodeIsPrintedPrefix ==
    /\ (phoneResult.status # "none" /\ phoneNumber = Israel) =>
          /\ phoneResult.status = "VALID"
          /\ phoneResult.formatted =
                <<"+", "9", "7", "2", " ", "5", "1", "2", " ",
                  "3", "4", "5", " ", "6", "7", "8">>
          /\ phoneResult.countryCode = <<"9", "7", "2">>
    /\ (phoneResult.status = "VALID" /\ Len(phoneNumber) >= 10) =>
          phoneResult.countryCode = PrintedPrefix(phoneResult.formatted)

(***************************************************************************)
(* C2: whenever a tool handler is given an argument object that violates   *)
(* the tool's declared schema, the handler fails and no upstream request   *)
(* is issued.                                                              *)
(***************************************************************************)
C2_InvalidArgumentsSendNothing ==
    (/\ call.tool # "none"
     /\ ~declaredSchema(call.tool,
                        handlerArgs(entry, call.tool, call.args, config))) =>
        /\ sent = <<>>
        /\ result.outcome = "error"

(***************************************************************************)
(* C3: for every non-2xx upstream response, whatever its body, the error   *)
(* raised by the request helper and the error raised by the handler that   *)
(* called it both have a message that includes the HTTP status code.       *)
(***************************************************************************)
C3_ErrorMessageNamesStatus ==
    (/\ pc = "done"
     /\ fetched.kind = "response"
     /\ ~StatusOk(fetched.response.status)
     /\ sent[1].dest = "gateway") =>
        /\ Contains(makeApiRequestEnd(fetched).err.message,
                    ToString(fetched.response.status))
        /\ Contains(result.err.message, ToString(fetched.response.status))

(***************************************************************************)
(* C5, as stated: the token of the JSON body that makeApiRequest sends is  *)
(* the first non-empty value among customToken, WAPULSE_TOKEN and the      *)
(* hardcoded default, and the instanceID is resolved independently in the  *)
(* same order.                                                             *)
(***************************************************************************)
FirstNonEmpty(values) ==
    IF \E i \in 1..Len(values) : values[i] \notin {UNDEF, ""}
    THEN values[CHOOSE i \in 1..Len(values) :
                    /\ values[i] \notin {UNDEF, ""}
                    /\ \A j \in 1..(i - 1) : values[j] \in {UNDEF, ""}]
    ELSE UNDEF

ResolvedToken ==
    FirstNonEmpty(<<call.args.customToken, env.WAPULSE_TOKEN,
                    DEFAULT_CONFIG.token>>)

ResolvedInstanceID ==
    FirstNonEmpty(<<call.args.customInstanceID, env.WAPULSE_INSTANCE_ID,
                    DEFAULT_CONFIG.instanceID>>)

C5_BodyCarriesResolvedCredentials ==
    sent # <<>> =>
        /\ sent[1].body.token = ResolvedToken
        /\ sent[1].body.instanceID = ResolvedInstanceID

(***************************************************************************)
(* C5, amended: a token (instanceID) property of the data object itself is *)
(* what the body carries, and is left out of the JSON when its value is    *)
(* undefined; only when data has no such property is the body's token      *)
(* (instanceID) the first non-empty value among the override, the          *)
(* environment variable and the hardcoded default.  The two fields are     *)
(* resolved independently, and a request is always sent.                   *)
(***************************************************************************)
C5_DataFieldsWinOverResolved ==
    /\ pc # "idle" => sent # <<>>
    /\ sent # <<>> =>
        /\ sent[1].body.token =
              IF call.args.data.hasToken THEN call.args.data.token
              ELSE ResolvedToken
        /\ sent[1].body.instanceID =
              IF call.args.data.hasInstanceID THEN call.args.data.instanceID
              ELSE ResolvedInstanceID

C5_Witness ==
    /\ sent # <<>>
    /\ call.args.data.hasToken /\ call.args.data.token = "user-token"
    /\ call.args.customToken = "caller-token"
    /\ ~call.args.data.hasInstanceID
    /\ call.args.customInstanceID = UNDEF
    /\ env.WAPULSE_INSTANCE_ID = "env-instance"
    /\ sent[1].body.token = "user-token"
    /\ sent[1].body.instanceID = "env-instance"

(***************************************************************************)
(* C6: a tool call with otherwise valid arguments that supplies no token   *)
(* override (or no instance-ID override) while the corresponding           *)
(* environment variable is unset or empty fails, and no upstream request   *)
(* is sent.  Stated for the tools the FastMCP server hands to the shared   *)
(* handlers, and without the claim's further demand that the failure be an *)
(* InvalidParams error.                                                    *)
(***************************************************************************)
C6_MissingCredentialsRejected ==
    (/\ entry = "fastmcp"
     /\ call.tool \in {"create_whatsapp_group", "load_chat_messages"}
     /\ declaredSchema(call.tool, call.args)
     /\ pc \in {"fetch", "done"}
     /\ \/ call.args.customToken = UNDEF /\ ~Truthy(env.WAPULSE_TOKEN)
        \/ call.args.customInstanceID = UNDEF /\ ~Truthy(env.WAPULSE_INSTANCE_ID)) =>
        /\ sent = <<>>
        /\ result.outcome = "error"

(***************************************************************************)
(* C7: in the stdio, Smithery and FastMCP servers, when the caller passes  *)
(* customToken and/or customInstanceID to a messaging or group tool, the   *)
(* request sent upstream carries exactly the caller's values.              *)
(***************************************************************************)
C7_CallerOverridesReachGateway ==
    (/\ entry \in {"stdio", "smithery", "fastmcp"}
     /\ call.tool \in OverridableTools
     /\ sent # <<>>) =>
        /\ Truthy(call.args.customToken) =>
              sent[1].body.token = call.args.customToken
        /\ Truthy(call.args.customInstanceID) =>
              sent[1].body.instanceID = call.args.customInstanceID

(***************************************************************************)
(* C8: process-wide configuration is read-only after initialization: a     *)
(* tool call without per-call overrides sends the token and instance ID    *)
(* that were resolved at server start, whatever HTTP requests have arrived *)
(* in between.                                                             *)
(***************************************************************************)
ConfigAtStart == parseConfigFromEnv(EmptyGlobalConfig, env)

DefaultsAtStart == getEffectiveConfig(ConfigAtStart, env, UNDEF, UNDEF)

C8_ConfigurationReadOnlyAfterStart ==
    (/\ IsFastMCP(entry)
     /\ call.tool = "send_whatsapp_message"
     /\ call.args.customToken = UNDEF
     /\ call.args.customInstanceID = UNDEF
     /\ sent # <<>>) =>
        /\ DefaultsAtStart.kind = "config"
        /\ sent[1].body.token = DefaultsAtStart.token
        /\ sent[1].body.instanceID = DefaultsAtStart.instanceID

(***************************************************************************)
(* C9, as stated: every tool invocation issues at most one network         *)
(* request, exactly one when validation and configuration resolution       *)
(* succeed, and a failed request is never re-issued.                       *)
(***************************************************************************)
UpstreamTools == (WaPulseTools \cup {"search_hotels_prices_by_dates"})
                    \ {"validate_phone_number"}

\* configuration resolution that can fail: server.ts's send_whatsapp_message
\* and the booking server's token
ResolutionCanFail ==
    \/ IsFastMCP(entry) /\ call.tool = "send_whatsapp_message"
    \/ entry = "medici"

IsDownload(req) == req.dest = "media" /\ req.method = "GET"

ResponseValue == makeApiRequestEnd(fetched).value

C11_OkResponseParsedOrEnvelope ==
    (/\ call.tool = "makeApiRequest"
     /\ pc = "done"
     /\ fetched.kind = "response"
     /\ StatusOk(fetched.response.status)) =>
        LET body == fetched.response.body
            expected ==
                IF body.kind = "json" THEN JSONparseValue(body.written)
                ELSE JsonObject(<<Member("success", "true"),
                                  Member("data", body.raw)>>)
        IN  /\ result.outcome = "ok"
            /\ result.err = NoError
            /\ result.text = JSONstringify(expected)

C11_Witness ==
    /\ call.tool = "makeApiRequest"
    /\ pc = "done"
    /\ fetched.kind = "response"
    /\ StatusOk(fetched.response.status)
    /\ fetched.response.body.kind = "text"
    /\ result.outcome = "ok"
    /\ Contains(result.text, "data")
    /\ Contains(result.text, fetched.response.body.raw)

(***************************************************************************)
(* C12: whatever a handler throws while handling a call (validation        *)
(* failure, configuration error, network failure, non-2xx response)        *)
(* reaches the caller as an error whose message is the handler's own       *)
(* template ('Failed to ... <id>: ') wrapping the cause; no raw library or *)
(* upstream error reaches the caller.                                      *)
(***************************************************************************)
HandlerTemplate(tool, a) ==
    CASE tool = "send_whatsapp_message" -> sendMessageFailed(a)
      [] tool = "create_whatsapp_group" -> createGroupFailed(a)
      [] tool = "load_chat_messages"    -> loadChatFailed(a)
      [] OTHER                          -> createInstanceFailed

C12_ErrorsWrappedInTemplate ==
    (/\ entry = "direct"
     /\ pc = "done"
     /\ call.tool \in {"send_whatsapp_message", "create_whatsapp_group",
                       "load_chat_messages", "create_instance"}
     /\ result.outcome = "error") =>
        /\ result.err.class \in {"UserError", "McpError"}
        /\ ContainsSeq(result.err.message, HandlerTemplate(call.tool, call.args))

(***************************************************************************)
(* C13: for every tool, a call rejected for its arguments (invalid phone   *)
(* number, missing or malformed parameter) fails with the MCP error code   *)
(* InvalidParams, and a call that fails upstream (network failure or       *)
(* non-2xx response) fails with the MCP error code InternalError.          *)
(***************************************************************************)
C13_ErrorCodesByCause ==
    (/\ pc = "done"
     /\ call.tool \in WaPulseTools
     /\ result.outcome = "error") =>
        /\ ~declaredSchema(call.tool, call.args) =>
              /\ result.err.class = "McpError"
              /\ result.err.code = InvalidParams
        /\ (\/ fetched.kind = "failed"
            \/ /\ fetched.kind = "response"
               /\ ~StatusOk(fetched.response.status)) =>
              /\ result.err.class = "McpError"
              /\ result.err.code = InternalError

(***************************************************************************)
(* C14: when a call is rejected because a phone number (the recipient or a *)
(* member of the list) has the wrong format, the error text the caller     *)
(* gets contains the offending number and a hint describing the expected   *)
(* format.                                                                 *)
(***************************************************************************)
OffendingNumbers ==
    IF call.tool = "send_whatsapp_message"
    THEN {n \in {call.args.to} : ~validatePhoneNumber(n)}
    ELSE {call.args.participants[i] : i \in
             {j \in 1..Len(call.args.participants) :
                 ~validatePhoneNumber(call.args.participants[j])}}

C14_PhoneErrorNamesNumberAndHint ==
    (/\ pc = "done"
     /\ call.tool \in {"send_whatsapp_message", "create_whatsapp_group"}
     /\ call.args.message \in {UNDEF, "hello"}
     /\ call.args.name \in {UNDEF, "Team"}
     /\ OffendingNumbers # {}
     /\ result.outcome = "error") =>
        /\ \E n \in OffendingNumbers : ContainsSeq(result.text, n)
        /\ Contains(result.text, ". Use format: country code + number")

(***************************************************************************)
(* C15: for every group tool that takes a list of phone numbers, a call    *)
(* with an empty list, or with more items than the tool's maximum (256 for *)
(* create_whatsapp_group, 50 for add and remove participants, 20 for       *)
(* promote and demote participants and for approve and reject requests),   *)
(* is rejected by schema validation and no upstream request is sent; a     *)
(* list of exactly the maximum size, of well-formed numbers and with the   *)
(* other arguments valid, is accepted and its request is sent.             *)
(***************************************************************************)
SuppliedList ==
    IF call.tool \in {"reject_group_request", "approve_group_request"}
    THEN call.args.numbers
    ELSE call.args.participants

ClaimedMaximum ==
    CASE call.tool = "create_whatsapp_group" -> 256
      [] call.tool \in {"add_group_participants",
                        "remove_group_participants"} -> 50
      [] OTHER -> 20

C15_ListLimitsEnforced ==
    (/\ pc \in {"fetch", "done"}
     /\ call.tool \in GroupListTools \cup {"create_whatsapp_group"}) =>
        /\ (Len(SuppliedList) = 0 \/ Len(SuppliedList) > ClaimedMaximum) =>
              /\ sent = <<>>
              /\ result.outcome = "error"
              /\ \/ result.err.class = "ZodError"
                 \/ /\ result.err.class = "McpError"
                    /\ result.err.code = InvalidParams
        /\ (/\ Len(SuppliedList) = ClaimedMaximum
            /\ \A i \in 1..Len(SuppliedList) :
                  validatePhoneNumber(SuppliedList[i])
            /\ call.args.name \in {UNDEF, "Team"}
            /\ call.args.id \in {UNDEF, "120363@g.us"}) =>
              /\ Len(sent) = 1
              /\ sent[1].dest = "gateway"

C15_Witness ==
    /\ pc = "done"
    /\ call.tool = "promote_group_participants"
    /\ Len(call.args.participants) = 20
    /\ Len(sent) = 1
    /\ result.outcome = "ok"

(***************************************************************************)
(* C16: a call that supplies a list (participants, numbers or files) is    *)
(* all-or-nothing: either the call is rejected and no request is sent, or  *)
(* exactly one request is sent and it carries every supplied item in the   *)
(* given order; a call with an invalid item sends nothing, so no request   *)
(* ever carries a strict subset of the items.                              *)
(***************************************************************************)
ItemsField ==
    IF call.tool = "send_whatsapp_files" THEN "files"
    ELSE IF call.tool \in {"reject_group_request", "approve_group_request"}
    THEN "numbers"
    ELSE "participants"

HasInvalidItem ==
    LET items == call.args[ItemsField]
    IN  \E i \in 1..Len(items) :
            IF call.tool = "send_whatsapp_files"
            THEN items[i].file = <<>> \/ Head(items[i].file) # "data:"
            ELSE ~validatePhoneNumber(items[i])

C16_AllOrNothing ==
    (/\ pc \in {"fetch", "done"}
     /\ call.tool \in GroupListTools \cup {"create_whatsapp_group",
                                           "send_whatsapp_files"}) =>
        /\ \/ /\ sent = <<>>
              /\ pc = "done"
              /\ result.outcome = "error"
           \/ /\ Len(sent) = 1
              /\ sent[1].dest = "gateway"
              /\ sent[1].body.payload[ItemsField] = call.args[ItemsField]
        /\ HasInvalidItem => sent = <<>>

C16_Witness ==
    /\ pc = "done"
    /\ call.tool = "send_whatsapp_files"
    /\ Len(call.args.files) = 2
    /\ Len(sent) = 1
    /\ sent[1].body.payload.files = call.args.files
    /\ result.outcome = "ok"

(***************************************************************************)
(* C17, as stated: every upstream request issued by any tool, to the       *)
(* messaging gateway or to the booking backend, uses the HTTP method POST. *)
(***************************************************************************)
C17_AllRequestsPost ==
    \A i \in 1..Len(sent) :
        sent[i].dest \in {"gateway", "booking"} => sent[i].method = "POST"

(***************************************************************************)
(* C17, amended: every request to the messaging gateway uses POST, and so  *)
(* does every request to the booking backend except the one cancel_room    *)
(* issues, which uses DELETE and names the booking in the query string.    *)
(***************************************************************************)
C17_PostExceptCancelRoom ==
    \A i \in 1..Len(sent) :
        sent[i].dest \in {"gateway", "booking"} =>
            /\ sent[i].method = IF call.tool = "cancel_room" THEN "DELETE"
                                ELSE "POST"
            /\ sent[i].dest = "gateway" => sent[i].method = "POST"

C17_Witness ==
    /\ pc = "done"
    /\ call.tool = "cancel_room"
    /\ Len(sent) = 1
    /\ sent[1].dest = "booking"
    /\ sent[1].method = "DELETE"
    /\ result.outcome = "ok"

(***************************************************************************)
(* C18, as stated: a server entry point started without a token or without *)
(* an instance ID terminates before any tool call is served, so no tool    *)
(* call is ever dispatched by a server that lacks either value.            *)
(***************************************************************************)
StartedWithout ==
    CASE entry = "stdio" ->
            ~Truthy(env.WAPULSE_TOKEN) \/ ~Truthy(env.WAPULSE_INSTANCE_ID)
      [] entry = "smithery" ->
            ~Truthy(config.wapulseToken) \/ ~Truthy(config.wapulseInstanceID)
      [] OTHER ->
            \/ ~Truthy(Or(globalConfig.wapulseToken, env.WAPULSE_TOKEN))
            \/ ~Truthy(Or(globalConfig.wapulseInstanceID,
                          env.WAPULSE_INSTANCE_ID))

C18_NoDispatchWithoutCredentials ==
    (/\ entry \in {"stdio", "smithery", "fastmcp", "http"}
     /\ pc # "boot"
     /\ StartedWithout) =>
        /\ pc \in {"exited", "failed"}
        /\ call = NoCall

(***************************************************************************)
(* C18, amended: the stdio entry point exits with code 1 when it is        *)
(* started without WAPULSE_TOKEN or without WAPULSE_INSTANCE_ID, and the   *)
(* Smithery entry point throws, creating no server, when its session       *)
(* configuration lacks either value; neither ever dispatches a tool call   *)
(* without both.  The FastMCP server (server.ts, alone or behind the HTTP  *)
(* front) never terminates for missing configuration: it starts and        *)
(* serves tool calls, resolving the credentials at each call.              *)
(***************************************************************************)
C18_StdioExitsSmitheryThrows ==
    /\ (entry = "stdio" /\ pc # "boot") =>
          /\ pc = "exited" <=> StartedWithout
          /\ pc = "exited" => call = NoCall /\ sent = <<>>
    /\ (entry = "smithery" /\ pc # "boot") =>
          /\ pc = "failed" <=> StartedWithout
          /\ pc = "failed" => call = NoCall /\ sent = <<>>
    /\ entry \in {"stdio", "smithery"} /\ call # NoCall =>
          Truthy(config.wapulseToken) /\ Truthy(config.wapulseInstanceID)
    /\ IsFastMCP(entry) => pc \notin {"exited", "failed"}

C18_Witness ==
    /\ entry = "stdio"
    /\ pc = "exited"
    /\ Truthy(env.WAPULSE_TOKEN)
    /\ ~Truthy(env.WAPULSE_INSTANCE_ID)
    /\ call = NoCall

(***************************************************************************)
(* C19: for any sequence of checkRateLimit calls with non-decreasing       *)
(* timestamps, the calls accepted for one user within one minute bucket    *)
(* floor(now/60000) never exceed that user's requestsPerMinute, and within *)
(* one hour bucket floor(now/3600000) never exceed requestsPerHour.        *)
(***************************************************************************)
AcceptedIn(userId, width, bucket) ==
    Cardinality({i \in 1..Len(rateCalls) :
                    /\ rateCalls[i].userId = userId
                    /\ rateCalls[i].accepted
                    /\ rateCalls[i].time \div width = bucket})

\* the outcomes of one user's calls when nobody else calls
RECURSIVE AloneOutcomes(_, _, _)
AloneOutcomes(user, calls, map) ==
    IF calls = <<>> THEN <<>>
    ELSE IF Head(calls).userId # user.id
    THEN AloneOutcomes(user, Tail(calls), map)
    ELSE LET checked == checkRateLimit(map, user.id, user.rateLimit,
                                       Head(calls).time)
         IN  <<checked.err = NoError>>
                 \o AloneOutcomes(user, Tail(calls), checked.map)

Outcomes(user) ==
    LET own == SelectSeq(rateCalls, LAMBDA c : c.userId = user.id)
    IN  [i \in 1..Len(own) |-> own[i].accepted]

C19_AcceptedWithinLimits ==
    \A user \in RateUsers :
        /\ \A t \in Instants :
              /\ AcceptedIn(user.id, 60000, t \div 60000)
                    <= limitsOf(user.rateLimit).requestsPerMinute
              /\ AcceptedIn(user.id, 3600000, t \div 3600000)
                    <= limitsOf(user.rateLimit).requestsPerHour
        /\ Outcomes(user) = AloneOutcomes(user, rateCalls, <<>>)

\* the part of C19 that holds: one user's outcomes do not depend on the
\* calls of the others
C19_UsersIndependent ==
    \A user \in RateUsers :
        Outcomes(user) = AloneOutcomes(user, rateCalls, <<>>)

\* the minute counter alone is never exceeded
C19_MinuteLimitHolds ==
    \A user \in RateUsers : \A t \in Instants :
        AcceptedIn(user.id, 60000, t \div 60000)
            <= limitsOf(user.rateLimit).requestsPerMinute

(***************************************************************************)
(* C20: the stdio server exposes exactly 25 distinct tools, and the names  *)
(* returned by ListTools are the names dispatched by CallTool: a call of a *)
(* listed tool never produces 'Unknown tool', and every dispatchable name  *)
(* is listed.                                                              *)
(***************************************************************************)
ListedNames == {allTools[i] : i \in 1..Len(allTools)}

UnknownTool(d) ==
    /\ d.isError
    /\ Len(d.text) >= 2
    /\ d.text[2] = "Unknown tool: "

C20_ListedEqualsDispatched ==
    /\ listed # <<>> =>
          /\ Len(listed) = 25
          /\ Cardinality({listed[i] : i \in 1..Len(listed)}) = 25
          /\ {listed[i] : i \in 1..Len(listed)} = DOMAIN CallToolSwitch
    /\ \A i \in 1..Len(dispatched) :
          /\ dispatched[i].name \in ListedNames => ~UnknownTool(dispatched[i])
          /\ ~UnknownTool(dispatched[i]) => dispatched[i].name \in ListedNames

\* the tools were listed, a listed tool was called and so was an unlisted one
C20_Witness ==
    /\ listed # <<>>
    /\ \E i \in 1..Len(dispatched) :
          /\ dispatched[i].name = "send_whatsapp_audio"
          /\ dispatched[i].handler = "handleSendAudio"
    /\ \E i \in 1..Len(dispatched) : UnknownTool(dispatched[i])

(***************************************************************************)
(* C21: for every group tool that the Smithery and FastMCP servers         *)
(* register, the registered parameter schema accepts every argument object *)
(* that the tool's inputSchema and the handler's schema accept:            *)
(* get_all_groups is callable with no arguments and the id-only tools with *)
(* only `id`.                                                              *)
(***************************************************************************)
C21_RegisteredAcceptsDeclared ==
    (/\ pc \in {"parsed", "rejected"}
     /\ groupInputSchema(call.tool, call.args)
     /\ groupHandlerSchema(call.tool, call.args))
        => pc = "parsed"

\* the part that holds: the list tools and the three tools that need only
\* the id and have no 'request' in their name
C21_ListAndPlainIdToolsAgree ==
    (/\ pc \in {"parsed", "rejected"}
     /\ call.tool \notin {"get_all_groups", "get_group_requests"}
     /\ groupInputSchema(call.tool, call.args)
     /\ groupHandlerSchema(call.tool, call.args))
        => pc = "parsed"

(***************************************************************************)
(* C22: send_whatsapp_audio sends a request only if the file data starts   *)
(* with 'data:audio/' and the filename ends, whatever its case, with one   *)
(* of .mp3 .wav .ogg .m4a .aac .opus .flac; otherwise it fails with a user *)
(* error and sends nothing.  When it sends, the single file entry has type *)
(* 'voice' exactly when isVoiceNote is true and 'audio' otherwise.         *)
(***************************************************************************)
AudioCall == call.tool = "send_whatsapp_audio" /\ pc \in {"fetch", "done"}

Sendable ==
    /\ call.args.audio.file # <<>>
    /\ Head(call.args.audio.file) = "data:audio/"
    /\ \E k \in 1..Len(audioExtensions) :
          endsWith(toLowerCase(call.args.audio.filename), audioExtensions[k])

VoiceTypeMatches ==
    sent # <<>> =>
        /\ Len(sent) = 1
        /\ Len(sent[1].body.payload.files) = 1
        /\ sent[1].body.payload.files[1].type =
              (IF call.args.audio.isVoiceNote = "true" THEN "voice" ELSE "audio")

UploadTotal ==
    IF call.tool = "send_whatsapp_files" THEN Len(call.args.files) ELSE 1

Completion(report) == report.progress = report.total

C23_ProgressBracketsRequest ==
    (/\ call.tool \in {"send_whatsapp_files", "send_whatsapp_audio"}
     /\ hasReportProgress(entry))
        => /\ \A i \in 1..Len(reported) :
                 /\ reported[i].total = UploadTotal
                 /\ reported[i].progress \in {0, UploadTotal}
                 /\ reported[i].progress = 0 => reported[i].issued = 0
                 /\ Completion(reported[i]) =>
                       /\ reported[i].issued = 1
                       /\ fetched.kind = "response"
                       /\ StatusOk(fetched.response.status)
                       /\ ~result.isError
           /\ sent # <<>> =>
                 /\ reported # <<>>
                 /\ reported[1].progress = 0
           /\ (pc = "done" /\ ~result.isError) =>
                 \E i \in 1..Len(reported) : Completion(reported[i])
           /\ (pc = "done" /\ result.isError) =>
                 /\ \A i \in 1..Len(reported) : ~Completion(reported[i])
                 /\ result.err # NoError

\* the exported handler was given a callback, sent two files and reported
\* 0 of 2 and then 2 of 2
C23_Witness ==
    /\ entry = "direct"
    /\ call.tool = "send_whatsapp_files"
    /\ pc = "done"
    /\ Len(reported) = 2
    /\ reported[1] = [progress |-> 0, total |-> 2, issued |-> 0]
    /\ reported[2] = [progress |-> 2, total |-> 2, issued |-> 1]

\* the request failed after the first report: no completion, an error
C23_FailureWitness ==
    /\ entry = "direct"
    /\ call.tool = "send_whatsapp_audio"
    /\ pc = "done"
    /\ fetched.kind = "failed"
    /\ reported = <<[progress |-> 0, total |-> 1, issued |-> 0]>>
    /\ result.isError

(***************************************************************************)
(* C24: a checkRateLimit call that is rejected, by the minute or by the    *)
(* hour limit, leaves the rate-limit map unchanged: no counter is          *)
(* incremented and no entry is removed; a call rejected by the hour limit  *)
(* does not consume minute quota.                                          *)
(***************************************************************************)
C24_RejectedCallLeavesMap ==
    [][(/\ Len(rateCalls') = Len(rateCalls) + 1
        /\ ~rateCalls'[Len(rateCalls')].accepted)
          => rateLimitMap' = rateLimitMap]_vars

\* a call was rejected although its user had no accepted call in that
\* minute: the hour limit rejected it
C24_Witness ==
    \E i \in 1..Len(rateCalls) :
        /\ ~rateCalls[i].accepted
        /\ AcceptedIn(rateCalls[i].userId, 60000, rateCalls[i].time \div 60000) = 0
        /\ rateLimitMap # <<>>

(***************************************************************************)
(* C25: with non-decreasing timestamps the cleanup step never deletes a    *)
(* counter entry whose minute or hour bucket is still the current one, so  *)
(* the count of accepted calls in a bucket is never reset before the       *)
(* bucket ends.                                                            *)
(***************************************************************************)
StoredCount(userId, bucket) ==
    IF <<userId, bucket>> \in DOMAIN rateLimitMap
    THEN rateLimitMap[<<userId, bucket>>].count
    ELSE 0

\* for the user of the latest accepted call, the counters of the current
\* minute and of the current hour are in the map and hold at least the
\* calls accepted in them
C25_CurrentBucketsKept ==
    (rateCalls # <<>> /\ rateCalls[Len(rateCalls)].accepted) =>
        LET userId == rateCalls[Len(rateCalls)].userId
        IN  /\ <<userId, now \div 60000>> \in DOMAIN rateLimitMap
            /\ <<userId, now \div 3600000>> \in DOMAIN rateLimitMap
            /\ StoredCount(userId, now \div 60000)
                  >= AcceptedIn(userId, 60000, now \div 60000)
            /\ StoredCount(userId, now \div 3600000)
                  >= AcceptedIn(userId, 3600000, now \div 3600000)

(***************************************************************************)
(* C26: in every group handler that takes a phone-number list, once        *)
(* schema.parse has accepted the arguments the validateParticipants call   *)
(* that follows cannot throw: the schema's constraints imply the helper's  *)
(* checks, so the helper's errors never reach a caller.                    *)
(***************************************************************************)
ListCall ==
    /\ call.tool \in GroupListTools \cup {"create_whatsapp_group"}
    /\ pc \in {"fetch", "done"}

CalledList ==
    IF call.tool = "create_whatsapp_group" THEN call.args.participants
    ELSE call.args[groupListTool(call.tool).field]

HelperComplaint ==
    \E i \in 1..Len(result.text) :
        result.text[i] \in {"At least one participant must be provided.",
                            "Invalid phone number format: "}

C26_HelperNeverThrows ==
    ListCall =>
        /\ declaredSchema(call.tool, call.args) =>
              validateParticipants(CalledList).kind = "ok"
        /\ ~HelperComplaint

\* a list tool whose two numbers passed the schema and the helper and whose
\* request went out
C26_Witness ==
    /\ ListCall
    /\ call.tool = "approve_group_request"
    /\ Len(call.args.numbers) = 2
    /\ declaredSchema(call.tool, call.args)
    /\ pc = "fetch"
    /\ sent # <<>>

(***************************************************************************)
(* C27: for every valid phone number p, removing the '+' and the spaces    *)
(* from formatPhoneNumber(p) gives back p: formatting never drops, adds or *)
(* reorders digits; a number shorter than 10 digits is returned unchanged, *)
(* and a longer one is printed as '+<prefix> ddd ddd ddd' with a non-empty *)
(* prefix.                                                                 *)
(***************************************************************************)
Unformatted(formatted) ==
    SelectSeq(formatted, LAMBDA c : c \notin {"+", " "})

C27_FormatKeepsDigits ==
    phoneResult.status = "VALID" =>
        LET p == phoneNumber
            f == phoneResult.formatted
            n == Len(p)
        IN  /\ Unformatted(f) = p
            /\ n < 10 => f = p
            /\ n >= 10 =>
                  /\ Len(f) = n + 4
                  /\ f[1] = "+"
                  /\ SubSeq(f, 2, n - 8) = SubSeq(p, 1, n - 9)
                  /\ n - 9 >= 1
                  /\ f[n - 7] = " "
                  /\ SubSeq(f, n - 6, n - 4) = SubSeq(p, n - 8, n - 6)
                  /\ f[n - 3] = " "
                  /\ SubSeq(f, n - 2, n) = SubSeq(p, n - 5, n - 3)
                  /\ f[n + 1] = " "
                  /\ SubSeq(f, n + 2, n + 4) = SubSeq(p, n - 2, n)

\* a valid number of exactly ten digits, printed with a one-digit prefix
C27_Witness ==
    /\ phoneResult.status = "VALID"
    /\ Len(phoneNumber) = 10
    /\ Len(phoneResult.formatted) = 14
    /\ phoneResult.formatted[3] = " "

(***************************************************************************)
(* C28: the instance handlers (create, get QR code, start, stop, delete)   *)
(* never write the complete API token to the log: for every token, the     *)
(* logged value is only a proper prefix of the token followed by '...'.    *)
(***************************************************************************)
ProperPrefixAndDots(shown, token) ==
    \E k \in 0..(Len(token) - 1) :
        shown = SubSeq(token, 1, k) \o <<".", ".", ".">>

C28_OnlyProperPrefixLogged ==
    \A i \in 1..Len(logged) :
        logged[i].token # <<>> =>
            ProperPrefixAndDots(logged[i].token, call.args.token)

\* what holds: at most the first eight characters are logged, so a token of
\* nine or more characters is never logged whole
C28_LongTokensCutAtEight ==
    \A i \in 1..Len(logged) :
        (logged[i].token # <<>> /\ Len(call.args.token) > 8) =>
            logged[i].token = SubSeq(call.args.token, 1, 8) \o <<".", ".", ".">>

(***************************************************************************)
(* C29: the stdio server's CallTool handler never throws: every failure    *)
(* (unknown tool name, validation error, upstream error) is returned as a  *)
(* result with isError true and text 'Error: <message>', and an unknown    *)
(* tool name causes no upstream request.                                   *)
(***************************************************************************)
StdioCall == entry = "stdio" /\ call # NoCall

StdioFailed == StdioCall /\ pc = "done" /\ result.err # NoError

C29_StdioFailuresReturned ==
    /\ StdioFailed =>
          /\ result.outcome = "error"
          /\ result.isError
          /\ result.text = <<"Error: ">> \o result.err.message
    /\ (StdioCall /\ pc = "done" /\ result.err = NoError) =>
          result.outcome = "ok" /\ ~result.isError
    /\ (StdioCall /\ call.tool \in UnlistedTools) =>
          /\ sent = <<>>
          /\ pc = "done"
          /\ result.isError
          /\ result.text = <<"Error: ", "Unknown tool: ", call.tool>>

\* an upstream failure came back as an error result
C29_Witness ==
    /\ StdioFailed
    /\ Len(sent) > 0
    /\ fetched # NotFetched
    /\ result.isError
    /\ result.text[1] = "Error: "

\* an unknown tool name was answered with an error result
C29_UnknownToolWitness ==
    /\ StdioFailed
    /\ call.tool = "send_whatsapp_video"
    /\ call.args.to = Israel
    /\ result.err.class = "Error"

\* a validation error was answered with an error result
C29_ValidationWitness ==
    /\ StdioFailed
    /\ call.tool \in DOMAIN CallToolSwitch
    /\ sent = <<>>
    /\ result.err.class = "ZodError"

====
